---- MODULE Spec2Model ----
(***************************************************************************)
(* Freight brokerage negotiation engine: Load (load.py), Carrier           *)
(* (carrier.py), FreightTech (freighttech.py) and the step loop of         *)
(* FreightBrokerageModel (freight_model.py).                               *)
(*                                                                         *)
(* Units.  Money is in integer cents; a price the code does not round is   *)
(* kept as an exact fraction <<numerator, denominator>>.  Time is in       *)
(* tenths of a day, so the default time_step of 0.1 day is 1.  Rates,      *)
(* margins and random factors are in percent.  A load or carrier id is its *)
(* index; 0 stands for None, NoneBid for a missing price.                  *)
(*                                                                         *)
(* Where the rounding of Python floats matters (SpecDecay, SpecResidue and *)
(* the sums of SpecLedger) a float is kept as a binary64 value in two      *)
(* limbs <<hi, lo>>, with round-to-nearest-even arithmetic.                *)
(***************************************************************************)
EXTENDS Integers, Sequences, FiniteSets, TLC

\* ---------------------------------------------------------------- bounds
MaxLoads == 2
NumCarriers == 2

\* ------------------------------------------------------- program constants
time_step == 1
max_negotiation_rounds == 3
penalty_rate == 20

NoneBid == 0 - 1

\* inputs of the random draws
MarketFactors == {90, 110}
Markups == {115}
\* the loads Load.generate_random draws: origin, destination, market_rate, lead_time
LoadKinds == {<<<<30, 40>>, <<60, 80>>, 30000, 2>>,
              <<<<0, 0>>, <<30, 40>>, 60000, 2>>,
              <<<<30, 40>>, <<60, 80>>, 50000, 5>>}

\* ------------------------------------------------------------- fractions
RECURSIVE GCD(_, _)
GCD(a, b) == IF b = 0 THEN a ELSE GCD(b, a % b)

Abs(a) == IF a < 0 THEN 0 - a ELSE a

Norm(n, d) ==
    LET g == GCD(Abs(n), d) IN IF g = 0 THEN <<n, d>> ELSE <<n \div g, d \div g>>

Frac(n) == <<n, 1>>

\* product, reducing across before multiplying
RMul(x, y) ==
    LET g1 == GCD(Abs(x[1]), y[2])
        g2 == GCD(Abs(y[1]), x[2])
    IN  <<(x[1] \div g1) * (y[1] \div g2), (x[2] \div g2) * (y[2] \div g1)>>

\* the denominators' common factor, taken out before cross-multiplying
Common(x, y) == IF GCD(x[2], y[2]) = 0 THEN 1 ELSE GCD(x[2], y[2])

RSub(x, y) ==
    Norm(x[1] * (y[2] \div Common(x, y)) - y[1] * (x[2] \div Common(x, y)),
         (x[2] \div Common(x, y)) * y[2])

RLe(x, y) == x[1] * (y[2] \div Common(x, y)) <= y[1] * (x[2] \div Common(x, y))

RLt(x, y) == x[1] * (y[2] \div Common(x, y)) < y[1] * (x[2] \div Common(x, y))
RMax(x, y) == IF RLe(y, x) THEN x ELSE y

\* round(x, 2) of a price in dollars = nearest whole cent, ties to even
Round2(x) ==
    LET q == x[1] \div x[2]
        r == x[1] % x[2]
    IN  IF 2 * r < x[2] THEN q
        ELSE IF 2 * r > x[2] THEN q + 1
        ELSE IF q % 2 = 0 THEN q ELSE q + 1

\* the integer square root of n > 0, by Newton's iteration down from k
RECURSIVE ISqrtFrom(_, _)
ISqrtFrom(n, k) ==
    IF (k + n \div k) \div 2 >= k THEN k ELSE ISqrtFrom(n, (k + n \div k) \div 2)

\* math.sqrt on the squared distances of the model's points, which are perfect squares
Sqrt(n) == IF n = 0 THEN 0 ELSE ISqrtFrom(n, n)

Distance(p, q) ==
    Sqrt((q[1] - p[1]) * (q[1] - p[1]) + (q[2] - p[2]) * (q[2] - p[2]))

\* ------------------------------------------------------------------ Load
NewLoad(o, d, mr, lt) ==
    [origin |-> o, destination |-> d, market_rate |-> mr,
     lead_time |-> lt, initial_lead_time |-> lt, penalty_rate |-> penalty_rate,
     assigned_carrier_id |-> 0, current_bid |-> NoneBid, current_bidder_id |-> 0,
     negotiation_rounds |-> 0, is_covered |-> FALSE, is_expired |-> FALSE]

get_distance(load) == Distance(load.origin, load.destination)

\* mutant: the share of the lead time that remains, not the share that is gone
get_urgency_factor_remaining(load) ==
    IF load.lead_time <= 0 THEN <<1, 1>>
    ELSE IF load.initial_lead_time = 0 THEN <<1, 0>>
    ELSE Norm(load.lead_time, load.initial_lead_time)

\* a zero denominator stands for the ZeroDivisionError of lead_time / 0
get_urgency_factor(load) ==
    IF load.lead_time <= 0 THEN <<1, 1>>
    ELSE IF load.initial_lead_time = 0 THEN <<1, 0>>
    ELSE Norm(load.initial_lead_time - load.lead_time, load.initial_lead_time)

\* mutant: the escalation counts the failure being handled
get_penalty_cost_counts_current(load, consecutive_failures) ==
    RMul(RMul(Frac(load.market_rate), <<load.penalty_rate, 100>>),
         <<10 + consecutive_failures + 1, 10>>)

get_penalty_cost(load, consecutive_failures) ==
    RMul(RMul(Frac(load.market_rate), <<load.penalty_rate, 100>>),
         <<10 + consecutive_failures, 10>>)

Max(a, b) == IF a >= b THEN a ELSE b

\* mutant: a covered load expires as well
update_lead_time_ignores_cover(load, ts) ==
    LET lt == Max(0, load.lead_time - ts)
    IN  [load EXCEPT !.lead_time = lt,
                     !.is_expired = IF lt <= 0 THEN TRUE ELSE @]

\* mutant: the default step of 0.1 day is taken whatever time_step is passed
update_lead_time_default_step(load, ts) ==
    LET lt == Max(0, load.lead_time - time_step)
    IN  [load EXCEPT !.lead_time = lt,
                     !.is_expired = IF lt <= 0 /\ ~load.is_covered THEN TRUE ELSE @]

\* mutant: the remaining time is not held at 0
update_lead_time_unclamped(load, ts) ==
    LET lt == load.lead_time - ts
    IN  [load EXCEPT !.lead_time = lt,
                     !.is_expired = IF lt <= 0 /\ ~load.is_covered THEN TRUE ELSE @]

update_lead_time(load, ts) ==
    LET lt == Max(0, load.lead_time - ts)
    IN  [load EXCEPT !.lead_time = lt,
                     !.is_expired = IF lt <= 0 /\ ~load.is_covered THEN TRUE ELSE @]

Load_accept_bid(load, carrier_id, bid_amount) ==
    [load EXCEPT !.assigned_carrier_id = carrier_id,
                 !.current_bid = bid_amount,
                 !.current_bidder_id = carrier_id,
                 !.is_covered = TRUE]

\* mutant: the bidder is entered as the assigned carrier
receive_bid_assigns_carrier(load, carrier_id, bid_amount) ==
    [load EXCEPT !.assigned_carrier_id = carrier_id,
                 !.current_bid = bid_amount,
                 !.current_bidder_id = carrier_id,
                 !.negotiation_rounds = @ + 1]

receive_bid(load, carrier_id, bid_amount) ==
    [load EXCEPT !.current_bid = bid_amount,
                 !.current_bidder_id = carrier_id,
                 !.negotiation_rounds = @ + 1]

\* --------------------------------------------------------------- Carrier
CarrierIds == 1..NumCarriers

\* the characteristics drawn in Carrier.__init__, one draw per carrier
CarrierCostPerMile == <<150, 120>>
CarrierFixedCost == <<20000, 30000>>
CarrierMargin == <<25, 15>>
CarrierAggressiveness == <<10, 50>>
CarrierStart == <<<<0, 0>>, <<60, 80>>>>

Pick(seq, i) == seq[((i - 1) % Len(seq)) + 1]

NewCarrier(i) ==
    [position |-> Pick(CarrierStart, i), is_available |-> TRUE, current_load |-> 0,
     cost_per_mile |-> Pick(CarrierCostPerMile, i),
     fixed_cost |-> Pick(CarrierFixedCost, i),
     desired_margin |-> Pick(CarrierMargin, i),
     max_bid_distance |-> 200,
     aggressiveness |-> Pick(CarrierAggressiveness, i),
     loads_completed |-> 0, total_revenue |-> 0, total_profit |-> 0]

get_distance_to_origin(c, load) == Distance(c.position, load.origin)

get_total_trip_distance(c, load) == get_distance_to_origin(c, load) + get_distance(load)

calculate_cost(c, load) == get_total_trip_distance(c, load) * c.cost_per_mile + c.fixed_cost

calculate_minimum_bid(c, load) ==
    RMul(Frac(calculate_cost(c, load)), <<100 + c.desired_margin, 100>>)

\* lead_time is in tenths of a day: lead_time/10 < distance/500
is_interested_in_load(c, load) ==
    IF ~c.is_available THEN FALSE
    ELSE IF get_distance_to_origin(c, load) > c.max_bid_distance THEN FALSE
    ELSE IF RLt(RMul(Frac(load.market_rate), <<140, 100>>), calculate_minimum_bid(c, load))
         THEN FALSE
    ELSE IF load.lead_time * 500 < get_distance_to_origin(c, load) * 10 THEN FALSE
    ELSE TRUE

\* market_factor is the draw of random.uniform(0.9, 1.1), in percent
generate_bid(c, load, market_factor) ==
    IF ~is_interested_in_load(c, load) THEN NoneBid
    ELSE LET min_bid == calculate_minimum_bid(c, load)
             urgency_factor ==
                 RSub(<<1, 1>>, RMul(get_urgency_factor(load), <<c.aggressiveness, 1000>>))
             bid == RMul(RMul(min_bid, <<market_factor, 100>>), urgency_factor)
             cost == calculate_cost(c, load)
         IN  Round2(RMax(bid, RMul(Frac(cost), <<105, 100>>)))

\* mutant: the availability check is missing
Carrier_accept_load_unchecked(c, l, load, agreed_price) ==
    [raised |-> FALSE,
     carrier |-> [c EXCEPT !.current_load = l,
                           !.is_available = FALSE,
                           !.total_revenue = @ + agreed_price,
                           !.total_profit = @ + (agreed_price - calculate_cost(c, load))]]

\* the result pairs the carrier with whether ValueError was raised
Carrier_accept_load(c, l, load, agreed_price) ==
    IF ~c.is_available THEN [raised |-> TRUE, carrier |-> c]
    ELSE LET cost == calculate_cost(c, load)
             profit == agreed_price - cost
         IN  [raised |-> FALSE,
              carrier |-> [c EXCEPT !.current_load = l,
                                    !.is_available = FALSE,
                                    !.total_revenue = @ + agreed_price,
                                    !.total_profit = @ + profit]]

\* mutant: the carrier is not made available again
complete_current_load_stays_busy(c, loads) ==
    IF c.current_load = 0 THEN c
    ELSE [c EXCEPT !.position = loads[c.current_load].destination,
                   !.loads_completed = @ + 1,
                   !.current_load = 0]

complete_current_load(c, loads) ==
    IF c.current_load = 0 THEN c
    ELSE [c EXCEPT !.position = loads[c.current_load].destination,
                   !.loads_completed = @ + 1,
                   !.current_load = 0,
                   !.is_available = TRUE]

Carrier_step(c, loads) ==
    IF c.current_load # 0 /\ ~c.is_available THEN complete_current_load(c, loads) ELSE c

\* ----------------------------------------------------------- FreightTech
NewBroker ==
    [active_loads |-> <<>>, completed_loads |-> <<>>, expired_loads |-> <<>>,
     pending_negotiations |-> {},
     total_revenue |-> 0, total_cost |-> 0, total_penalties |-> <<0, 1>>,
     consecutive_failures |-> 0, coverage_rate |-> <<0, 1>>]

RAdd(x, y) ==
    Norm(x[1] * (y[2] \div Common(x, y)) + y[1] * (x[2] \div Common(x, y)),
         (x[2] \div Common(x, y)) * y[2])

InSeq(x, seq) == \E i \in 1..Len(seq) : seq[i] = x

\* list.remove: drops the first occurrence
RECURSIVE Remove(_, _)
Remove(seq, x) ==
    IF seq = <<>> THEN <<>>
    ELSE IF Head(seq) = x THEN Tail(seq)
    ELSE <<Head(seq)>> \o Remove(Tail(seq), x)

\* mutant: no entry is made in pending_negotiations
add_load_without_entry(b, l) == [b EXCEPT !.active_loads = Append(@, l)]

add_load(b, l) ==
    [b EXCEPT !.active_loads = Append(@, l),
              !.pending_negotiations = @ \cup {l}]

\* mutant: the threshold does not rise with urgency
get_urgency_threshold_flat(load) == RMul(Frac(load.market_rate), <<95, 100>>)

get_urgency_threshold(load) ==
    LET base_threshold == Frac(load.market_rate)
        urgency_factor == get_urgency_factor(load)
    IN  IF RLt(<<8, 10>>, urgency_factor) THEN RMul(base_threshold, <<130, 100>>)
        ELSE IF RLt(<<5, 10>>, urgency_factor) THEN RMul(base_threshold, <<115, 100>>)
        ELSE RMul(base_threshold, <<95, 100>>)

\* mutant: no acceptance on urgency and rounds alone
should_accept_bid_no_override(b, load, bid) ==
    LET threshold == get_urgency_threshold(load)
        penalty_cost == get_penalty_cost(load, b.consecutive_failures)
    IN  IF RLe(Frac(bid), threshold) THEN TRUE
        ELSE IF RLt(Frac(bid), penalty_cost) THEN TRUE
        ELSE FALSE

should_accept_bid(b, load, bid) ==
    LET threshold == get_urgency_threshold(load)
        urgency == get_urgency_factor(load)
        penalty_cost == get_penalty_cost(load, b.consecutive_failures)
    IN  IF RLe(Frac(bid), threshold) THEN TRUE
        ELSE IF RLt(Frac(bid), penalty_cost) THEN TRUE
        ELSE IF RLt(<<9, 10>>, urgency) /\ load.negotiation_rounds >= 2 THEN TRUE
        ELSE FALSE

\* mutant: a counter-offer is made however many rounds there were
generate_counter_offer_unlimited(b, load, original_bid) ==
    LET threshold == get_urgency_threshold(load)
        urgency == get_urgency_factor(load)
        band == IF RLt(urgency, <<3, 10>>) THEN RMul(threshold, <<90, 100>>)
                ELSE IF RLt(urgency, <<7, 10>>) THEN RMul(threshold, <<95, 100>>)
                ELSE RMul(threshold, <<105, 100>>)
        min_counter == RMul(Frac(load.market_rate), <<80, 100>>)
        counter == RMax(band, min_counter)
    IN  IF RLe(Frac(original_bid), counter) THEN NoneBid
        ELSE Round2(counter)

\* mutant: the floor of a counter-offer is market_rate * 0.9
generate_counter_offer_high_floor(b, load, original_bid) ==
    IF load.negotiation_rounds >= max_negotiation_rounds THEN NoneBid
    ELSE LET threshold == get_urgency_threshold(load)
             urgency == get_urgency_factor(load)
             band == IF RLt(urgency, <<3, 10>>) THEN RMul(threshold, <<90, 100>>)
                     ELSE IF RLt(urgency, <<7, 10>>) THEN RMul(threshold, <<95, 100>>)
                     ELSE RMul(threshold, <<105, 100>>)
             min_counter == RMul(Frac(load.market_rate), <<90, 100>>)
             counter == RMax(band, min_counter)
         IN  IF RLe(Frac(original_bid), counter) THEN NoneBid
             ELSE Round2(counter)

generate_counter_offer(b, load, original_bid) ==
    IF load.negotiation_rounds >= max_negotiation_rounds THEN NoneBid
    ELSE LET threshold == get_urgency_threshold(load)
             urgency == get_urgency_factor(load)
             band == IF RLt(urgency, <<3, 10>>) THEN RMul(threshold, <<90, 100>>)
                     ELSE IF RLt(urgency, <<7, 10>>) THEN RMul(threshold, <<95, 100>>)
                     ELSE RMul(threshold, <<105, 100>>)
             min_counter == RMul(Frac(load.market_rate), <<80, 100>>)
             counter == RMax(band, min_counter)
         IN  IF RLe(Frac(original_bid), counter) THEN NoneBid
             ELSE Round2(counter)

\* mutant: the carrier accepts any counter-offer that covers its minimum bid
carrier_accepts_counter_no_tolerance(c, load, counter_offer) ==
    RLe(calculate_minimum_bid(c, load), Frac(counter_offer))

carrier_accepts_counter(c, load, counter_offer) ==
    LET min_acceptable == calculate_minimum_bid(c, load)
        tolerance_factor == <<1000 + c.aggressiveness, 1000>>
    IN  RLe(RMul(min_acceptable, tolerance_factor), Frac(counter_offer))

\* mutant: every carrier of the population is returned, busy or not
get_available_carriers_everyone(carriers) ==
    [i \in 1..NumCarriers |-> i]

get_available_carriers(carriers) ==
    SelectSeq([i \in 1..NumCarriers |-> i], LAMBDA c : carriers[c].is_available)

\* mutant: among equal prices the bid met last comes first
RECURSIVE InsertBid_ties_last(_, _)
InsertBid_ties_last(sorted, bid) ==
    IF sorted = <<>> THEN <<bid>>
    ELSE IF bid[2] <= Head(sorted)[2] THEN <<bid>> \o sorted
    ELSE <<Head(sorted)>> \o InsertBid_ties_last(Tail(sorted), bid)

\* sorted(bids, key=price): stable insertion
RECURSIVE InsertBid(_, _)
InsertBid(sorted, bid) ==
    IF sorted = <<>> THEN <<bid>>
    ELSE IF bid[2] < Head(sorted)[2] THEN <<bid>> \o sorted
    ELSE <<Head(sorted)>> \o InsertBid(Tail(sorted), bid)

RECURSIVE SortBids(_)
SortBids(bids) ==
    IF bids = <<>> THEN <<>>
    ELSE InsertBid(SortBids(SubSeq(bids, 1, Len(bids) - 1)), bids[Len(bids)])

\* ------------------------------------------------------------------ state
VARIABLES
    loads,      \* every Load created so far, indexed by id
    carriers,   \* FreightBrokerageModel.carriers
    broker,     \* the FreightTech instance
    raised,     \* a misuse error was raised and ended the run
    step_log,   \* what the FreightTech.step that produced this state did, round by round,
                \* and the available carriers it found for each load it took up
    history,    \* the terminal transitions so far, in order
    last        \* the last method called directly, its arguments, and the call count

vars == <<loads, carriers, broker, raised, step_log, history, last>>

\* the part of the state the broker's methods read and write
World == [loads |-> loads, carriers |-> carriers, broker |-> broker,
          step_log |-> step_log, history |-> history, raised |-> FALSE]

EmptyLog == [after_decay |-> <<>>, available |-> <<>>, rounds |-> <<>>]

\* mutant: the load is appended to completed_loads but stays in active_loads
FreightTech_accept_bid_keeps_active(w, l, carrier_id, agreed_price, markup) ==
    LET load1 == Load_accept_bid(w.loads[l], carrier_id, agreed_price)
        res == Carrier_accept_load(w.carriers[carrier_id], l, load1, agreed_price)
        w1 == [w EXCEPT !.loads[l] = load1]
    IN  IF res.raised THEN [w1 EXCEPT !.raised = TRUE]
        ELSE [w1 EXCEPT !.carriers[carrier_id] = res.carrier,
                        !.broker.total_revenue = @ + (load1.market_rate * markup) \div 100,
                        !.broker.total_cost = @ + agreed_price,
                        !.broker.completed_loads = Append(@, l),
                        !.broker.consecutive_failures = 0,
                        !.broker.pending_negotiations = @ \ {l},
                        !.history = Append(@, [kind |-> "covered", load |-> l,
                                               amount |-> Frac(agreed_price)])]

\* mutant: consecutive_failures is not reset
FreightTech_accept_bid_no_reset(w, l, carrier_id, agreed_price, markup) ==
    LET load1 == Load_accept_bid(w.loads[l], carrier_id, agreed_price)
        res == Carrier_accept_load(w.carriers[carrier_id], l, load1, agreed_price)
        w1 == [w EXCEPT !.loads[l] = load1]
    IN  IF res.raised THEN [w1 EXCEPT !.raised = TRUE]
        ELSE IF ~InSeq(l, w.broker.active_loads) THEN [w1 EXCEPT !.raised = TRUE]
        ELSE [w1 EXCEPT !.carriers[carrier_id] = res.carrier,
                        !.broker.total_revenue = @ + (load1.market_rate * markup) \div 100,
                        !.broker.total_cost = @ + agreed_price,
                        !.broker.active_loads = Remove(@, l),
                        !.broker.completed_loads = Append(@, l),
                        !.broker.pending_negotiations = @ \ {l},
                        !.history = Append(@, [kind |-> "covered", load |-> l,
                                               amount |-> Frac(agreed_price)])]

\* a misuse error ends the call where it is raised; the writes made before stay
FreightTech_accept_bid(w, l, carrier_id, agreed_price, markup) ==
    LET load1 == Load_accept_bid(w.loads[l], carrier_id, agreed_price)
        w1 == [w EXCEPT !.loads[l] = load1]
        known == carrier_id \in DOMAIN w.carriers
        res == Carrier_accept_load(w.carriers[carrier_id], l, load1, agreed_price)
        w2 == IF known THEN [w1 EXCEPT !.carriers[carrier_id] = res.carrier] ELSE w1
        customer_rate == (load1.market_rate * markup) \div 100
        w3 == [w2 EXCEPT !.broker.total_revenue = @ + customer_rate,
                         !.broker.total_cost = @ + agreed_price]
    IN  IF known /\ res.raised THEN [w1 EXCEPT !.raised = TRUE]
        ELSE IF ~InSeq(l, w3.broker.active_loads) THEN [w3 EXCEPT !.raised = TRUE]
        ELSE [w3 EXCEPT !.broker.active_loads = Remove(@, l),
                        !.broker.completed_loads = Append(@, l),
                        !.broker.consecutive_failures = 0,
                        !.broker.pending_negotiations = @ \ {l},
                        !.history = Append(@, [kind |-> "covered", load |-> l,
                                               amount |-> Frac(agreed_price)])]

\* mutant: the failure is not counted
handle_expired_load_no_count(w, l) ==
    LET penalty == get_penalty_cost(w.loads[l], w.broker.consecutive_failures)
        w1 == [w EXCEPT !.broker.total_penalties = RAdd(@, penalty)]
    IN  IF ~InSeq(l, w1.broker.active_loads) THEN [w1 EXCEPT !.raised = TRUE]
        ELSE [w1 EXCEPT !.broker.active_loads = Remove(@, l),
                        !.broker.expired_loads = Append(@, l),
                        !.broker.pending_negotiations = @ \ {l},
                        !.history = Append(@, [kind |-> "expired", load |-> l,
                                               amount |-> penalty])]

\* mutant: the expired load is not taken out of active_loads
handle_expired_load_keeps_active(w, l) ==
    LET penalty == get_penalty_cost(w.loads[l], w.broker.consecutive_failures)
    IN  [w EXCEPT !.broker.total_penalties = RAdd(@, penalty),
                  !.broker.consecutive_failures = @ + 1,
                  !.broker.expired_loads = Append(@, l),
                  !.broker.pending_negotiations = @ \ {l},
                  !.history = Append(@, [kind |-> "expired", load |-> l,
                                         amount |-> penalty])]

handle_expired_load(w, l) ==
    LET penalty == get_penalty_cost(w.loads[l], w.broker.consecutive_failures)
        w1 == [w EXCEPT !.broker.total_penalties = RAdd(@, penalty),
                        !.broker.consecutive_failures = @ + 1]
    IN  IF ~InSeq(l, w1.broker.active_loads) THEN [w1 EXCEPT !.raised = TRUE]
        ELSE [w1 EXCEPT !.broker.active_loads = Remove(@, l),
                        !.broker.expired_loads = Append(@, l),
                        !.broker.pending_negotiations = @ \ {l},
                        !.history = Append(@, [kind |-> "expired", load |-> l,
                                               amount |-> penalty])]

\* mutant: a call without bids counts as a round of negotiation
process_bids_counts_empty_round(w, l, bids, markup) ==
    IF bids = <<>> THEN [w EXCEPT !.loads[l].negotiation_rounds = @ + 1]
    ELSE LET sorted_bids == SortBids(bids)
             best_carrier_id == sorted_bids[1][1]
             best_bid == sorted_bids[1][2]
             load == w.loads[l]
             counter_offer == generate_counter_offer(w.broker, load, best_bid)
             carrier == w.carriers[best_carrier_id]
             note(o, p) == [load |-> l, bids |-> bids, outcome |-> o,
                            carrier |-> best_carrier_id, price |-> p,
                            counter |-> IF o = "accept" THEN NoneBid ELSE counter_offer,
                            terminal |-> load.is_covered \/ load.is_expired,
                            busy |-> ~carrier.is_available]
         IN  IF should_accept_bid(w.broker, load, best_bid)
             THEN FreightTech_accept_bid(
                      [w EXCEPT !.step_log.rounds = Append(@, note("accept", best_bid))],
                      l, best_carrier_id, best_bid, markup)
             ELSE IF counter_offer # NoneBid
                     /\ carrier_accepts_counter(carrier, load, counter_offer)
             THEN FreightTech_accept_bid(
                      [w EXCEPT !.step_log.rounds = Append(@, note("counter", counter_offer))],
                      l, best_carrier_id, counter_offer, markup)
             ELSE [w EXCEPT !.loads[l] = receive_bid(load, best_carrier_id, best_bid),
                            !.step_log.rounds = Append(@, note("record", best_bid))]

\* the decision of one bid round, entered in the log as it is taken
process_bids(w, l, bids, markup) ==
    IF bids = <<>> THEN w
    ELSE LET sorted_bids == SortBids(bids)
             best_carrier_id == sorted_bids[1][1]
             best_bid == sorted_bids[1][2]
             load == w.loads[l]
             counter_offer == generate_counter_offer(w.broker, load, best_bid)
             carrier == w.carriers[best_carrier_id]
             note(o, p) == [load |-> l, bids |-> bids, outcome |-> o,
                            carrier |-> best_carrier_id, price |-> p,
                            counter |-> IF o = "accept" THEN NoneBid ELSE counter_offer,
                            terminal |-> load.is_covered \/ load.is_expired,
                            busy |-> ~carrier.is_available]
         IN  IF should_accept_bid(w.broker, load, best_bid)
             THEN FreightTech_accept_bid(
                      [w EXCEPT !.step_log.rounds = Append(@, note("accept", best_bid))],
                      l, best_carrier_id, best_bid, markup)
             ELSE IF counter_offer # NoneBid
                     /\ carrier_accepts_counter(carrier, load, counter_offer)
             THEN FreightTech_accept_bid(
                      [w EXCEPT !.step_log.rounds = Append(@, note("counter", counter_offer))],
                      l, best_carrier_id, counter_offer, markup)
             ELSE [w EXCEPT !.loads[l] = receive_bid(load, best_carrier_id, best_bid),
                            !.step_log.rounds = Append(@, note("record", best_bid))]

\* mutant: the division is made without testing total_loads
update_metrics_unguarded(b) ==
    LET total_loads == Len(b.completed_loads) + Len(b.expired_loads)
    IN  [b EXCEPT !.coverage_rate = Norm(Len(b.completed_loads), total_loads)]

update_metrics(b) ==
    LET total_loads == Len(b.completed_loads) + Len(b.expired_loads)
    IN  IF total_loads > 0
        THEN [b EXCEPT !.coverage_rate = Norm(Len(b.completed_loads), total_loads)]
        ELSE b

\* mutant: profit is divided by total_revenue without testing it; a zero
\* denominator stands for the ZeroDivisionError
get_performance_summary_unguarded(b) ==
    LET total_loads == Len(b.completed_loads) + Len(b.expired_loads)
        profit == RSub(RSub(Frac(b.total_revenue), Frac(b.total_cost)), b.total_penalties)
    IN  [total_loads_handled |-> total_loads,
         loads_covered |-> Len(b.completed_loads),
         loads_expired |-> Len(b.expired_loads),
         coverage_rate |-> b.coverage_rate,
         total_revenue |-> b.total_revenue,
         total_cost |-> b.total_cost,
         total_penalties |-> b.total_penalties,
         profit |-> profit,
         profit_margin |-> IF b.total_revenue > 0
                           THEN RMul(profit, <<1, b.total_revenue>>)
                           ELSE <<profit[1], 0>>,
         consecutive_failures |-> b.consecutive_failures,
         active_loads |-> Len(b.active_loads)]

get_performance_summary(b) ==
    LET total_loads == Len(b.completed_loads) + Len(b.expired_loads)
        profit == RSub(RSub(Frac(b.total_revenue), Frac(b.total_cost)), b.total_penalties)
        profit_margin == IF b.total_revenue > 0
                         THEN RMul(profit, <<1, b.total_revenue>>)
                         ELSE <<0, 1>>
    IN  [total_loads_handled |-> total_loads,
         loads_covered |-> Len(b.completed_loads),
         loads_expired |-> Len(b.expired_loads),
         coverage_rate |-> b.coverage_rate,
         total_revenue |-> b.total_revenue,
         total_cost |-> b.total_cost,
         total_penalties |-> b.total_penalties,
         profit |-> profit,
         profit_margin |-> profit_margin,
         consecutive_failures |-> b.consecutive_failures,
         active_loads |-> Len(b.active_loads)]

\* mutant: every load the broker has seen is aged, not only the active ones
DecayLoop_all_loads(w, i) ==
    [w EXCEPT !.loads = [l \in DOMAIN w.loads |-> update_lead_time(w.loads[l], time_step)]]

\* for load in self.active_loads: load.update_lead_time(...)
RECURSIVE DecayLoop(_, _)
DecayLoop(w, i) ==
    IF i > Len(w.broker.active_loads) THEN w
    ELSE LET l == w.broker.active_loads[i]
         IN  DecayLoop([w EXCEPT !.loads[l] = update_lead_time(@, time_step)], i + 1)

RECURSIVE ExpireLoop(_, _)
ExpireLoop(w, expired) ==
    IF expired = <<>> \/ w.raised THEN w
    ELSE ExpireLoop(handle_expired_load(w, Head(expired)), Tail(expired))

\* the bids of the carriers available now, in carrier order
CollectBids(w, l, mf) ==
    LET avail == get_available_carriers(w.carriers)
        all == [k \in 1..Len(avail) |->
                   <<avail[k], generate_bid(w.carriers[avail[k]], w.loads[l], mf[avail[k]])>>]
    IN  SelectSeq(all, LAMBDA b : b[2] # NoneBid)

\* for load in self.active_loads: the list iterator is a position in the live
\* list, so a removal made by accept_bid shifts the loads behind it
RECURSIVE BidLoop(_, _, _, _)
BidLoop(w, i, mf, markup) ==
    IF i > Len(w.broker.active_loads) \/ w.raised THEN w
    ELSE LET l == w.broker.active_loads[i]
             current_bids == CollectBids(w, l, mf)
             w1 == [w EXCEPT !.step_log.available =
                        Append(@, get_available_carriers(w.carriers)),
                             !.step_log.rounds =
                        IF current_bids = <<>>
                        THEN Append(@, [load |-> l, bids |-> <<>>, outcome |-> "none",
                                        carrier |-> 0, price |-> NoneBid,
                                        counter |-> NoneBid, terminal |-> FALSE,
                                        busy |-> FALSE])
                        ELSE @]
         IN  IF w.loads[l].is_covered THEN BidLoop(w, i + 1, mf, markup)
             ELSE BidLoop(process_bids(w1, l, current_bids, markup), i + 1, mf, markup)

\* mutant: the loads that expired are handled after the bid phase
FreightTech_step_expires_last(w, mf, markup) ==
    LET w0 == [w EXCEPT !.step_log = EmptyLog]
        w1 == DecayLoop(w0, 1)
        w2 == [w1 EXCEPT !.step_log.after_decay = w1.broker.active_loads]
        w3 == BidLoop(w2, 1, mf, markup)
        expired_loads == SelectSeq(w3.broker.active_loads,
                                   LAMBDA l : w3.loads[l].is_expired)
        w4 == ExpireLoop(w3, expired_loads)
    IN  IF w3.raised THEN w3
        ELSE IF w4.raised THEN w4
        ELSE [w4 EXCEPT !.broker = update_metrics(@)]

FreightTech_step(w, mf, markup) ==
    LET w0 == [w EXCEPT !.step_log = EmptyLog]
        w1 == DecayLoop(w0, 1)
        expired_loads == SelectSeq(w1.broker.active_loads,
                                   LAMBDA l : w1.loads[l].is_expired)
        w2 == ExpireLoop(w1, expired_loads)
        w3 == [w2 EXCEPT !.step_log.after_decay = w2.broker.active_loads]
        w4 == BidLoop(w3, 1, mf, markup)
    IN  IF w2.raised THEN w2
        ELSE IF w4.raised THEN w4
        ELSE [w4 EXCEPT !.broker = update_metrics(@)]

\* ---------------------------------------------------------------- actions
Call(name, l, c, p) == [op |-> name, load |-> l, carrier |-> c, price |-> p, n |-> last.n + 1]

Init ==
    /\ loads = <<>>
    /\ carriers = [i \in CarrierIds |-> NewCarrier(i)]
    /\ broker = NewBroker
    /\ raised = FALSE
    /\ step_log = EmptyLog
    /\ history = <<>>
    /\ last = [op |-> "none", load |-> 0, carrier |-> 0, price |-> NoneBid, n |-> 0]

Commit(w) ==
    /\ loads' = w.loads
    /\ carriers' = w.carriers
    /\ broker' = w.broker
    /\ step_log' = w.step_log
    /\ history' = w.history
    /\ raised' = w.raised

\* Load.generate_random followed by FreightTech.add_load
AddLoad ==
    /\ Len(loads) < MaxLoads
    /\ ~raised
    /\ \E k \in LoadKinds :
          /\ loads' = Append(loads, NewLoad(k[1], k[2], k[3], k[4]))
          /\ broker' = add_load(broker, Len(loads) + 1)
    /\ step_log' = EmptyLog
    /\ UNCHANGED <<carriers, raised, history, last>>

\* The carriers that can come to draw a market_factor in a step from w: those
\* interested in a load of active_loads once it has aged.  Within a step a
\* carrier's position does not change and its availability can only end.
Bidders(w) ==
    LET w1 == DecayLoop(w, 1)
    IN  {c \in DOMAIN w.carriers :
            \E i \in 1..Len(w1.broker.active_loads) :
                is_interested_in_load(w1.carriers[c], w1.loads[w1.broker.active_loads[i]])}

\* mf is the market_factor each such carrier draws when it bids
BrokerStep ==
    /\ ~raised
    /\ \E mf \in [Bidders(World) -> MarketFactors], markup \in Markups :
          Commit(FreightTech_step(World, mf, markup))
    /\ UNCHANGED last

CarrierStep ==
    /\ ~raised
    /\ \E c \in CarrierIds :
          carriers' = [carriers EXCEPT ![c] = Carrier_step(@, loads)]
    /\ step_log' = EmptyLog
    /\ UNCHANGED <<loads, broker, raised, history, last>>

Next == AddLoad \/ BrokerStep \/ CarrierStep

Spec == Init /\ [][Next]_vars

\* ------------------------------------------------- the model's step loop
RECURSIVE StepCarriers(_, _, _)
StepCarriers(cs, loads0, i) ==
    IF i > NumCarriers THEN cs
    ELSE StepCarriers([cs EXCEPT ![i] = Carrier_step(@, loads0)], loads0, i + 1)

\* generate_new_loads: Load.generate_random and add_load, when a load is drawn
WithNewLoad(w, new_load) ==
    IF new_load = <<>> THEN w
    ELSE [w EXCEPT !.loads = Append(@, NewLoad(new_load[1], new_load[2],
                                               new_load[3], new_load[4])),
                   !.broker = add_load(@, Len(w.loads) + 1)]

\* mutant: the carriers are stepped before the broker
Model_step_carriers_first(w, new_load, mf, markup) ==
    LET w1 == WithNewLoad(w, new_load)
    IN  FreightTech_step([w1 EXCEPT !.carriers = StepCarriers(@, w1.loads, 1)], mf, markup)

\* FreightBrokerageModel.step: generate_new_loads, then agent_list in order,
\* the broker first and the carriers after it.  new_load is the draw of
\* generate_new_loads: a load kind, or <<>> when none is generated.
Model_step(w, new_load, mf, markup) ==
    LET w2 == FreightTech_step(WithNewLoad(w, new_load), mf, markup)
    IN  IF w2.raised THEN w2
        ELSE [w2 EXCEPT !.carriers = StepCarriers(@, w2.loads, 1)]

\* FreightBrokerageModel.__init__ ends with generate_initial_loads:
\* max(1, int(num_carriers * 0.8)) loads
InitialLoadCount == Max(1, (NumCarriers * 8) \div 10)

InitModel ==
    /\ loads \in [1..InitialLoadCount -> {NewLoad(k[1], k[2], k[3], k[4]) : k \in LoadKinds}]
    /\ carriers = [i \in CarrierIds |-> NewCarrier(i)]
    /\ broker = [NewBroker EXCEPT !.active_loads = [i \in 1..InitialLoadCount |-> i],
                                  !.pending_negotiations = 1..InitialLoadCount]
    /\ raised = FALSE
    /\ step_log = EmptyLog
    /\ history = <<>>
    /\ last = [op |-> "none", load |-> 0, carrier |-> 0, price |-> NoneBid, n |-> 0]

ModelStep ==
    /\ ~raised
    /\ \E new_load \in {<<>>} \cup (IF Len(loads) < MaxLoads THEN LoadKinds ELSE {}) :
          \E mf \in [Bidders(WithNewLoad(World, new_load)) -> MarketFactors],
             markup \in Markups :
             Commit(Model_step(World, new_load, mf, markup))
    /\ UNCHANGED last

NextModel == ModelStep

SpecModel == InitModel /\ [][NextModel]_vars

\* ------------------------------------ broker steps on a backlog of loads
BacklogLoads == 3

\* add_load has been called BacklogLoads times on a new broker
InitBacklog ==
    /\ loads \in [1..BacklogLoads -> {NewLoad(k[1], k[2], k[3], k[4]) : k \in LoadKinds}]
    /\ carriers = [i \in CarrierIds |-> NewCarrier(i)]
    /\ broker = [NewBroker EXCEPT !.active_loads = [i \in 1..BacklogLoads |-> i],
                                  !.pending_negotiations = 1..BacklogLoads]
    /\ raised = FALSE
    /\ step_log = EmptyLog
    /\ history = <<>>
    /\ last = [op |-> "none", load |-> 0, carrier |-> 0, price |-> NoneBid, n |-> 0]

NextBacklog == BrokerStep \/ CarrierStep

SpecBacklog == InitBacklog /\ [][NextBacklog]_vars

\* --------------------------------------- the methods called one at a time
MaxCalls == 4
Prices == {40000}

ApiAddLoad ==
    /\ ~raised /\ last.n < MaxCalls
    /\ Len(loads) < MaxLoads
    /\ \E k \in LoadKinds :
          /\ loads' = Append(loads, NewLoad(k[1], k[2], k[3], k[4]))
          /\ broker' = add_load(broker, Len(loads) + 1)
          /\ last' = Call("FreightTech.add_load", Len(loads) + 1, 0, NoneBid)
    /\ UNCHANGED <<carriers, raised, step_log, history>>

ApiUpdateLeadTime ==
    /\ ~raised /\ last.n < MaxCalls
    /\ \E l \in DOMAIN loads :
          /\ loads' = [loads EXCEPT ![l] = update_lead_time(@, time_step)]
          /\ last' = Call("Load.update_lead_time", l, 0, NoneBid)
    /\ UNCHANGED <<carriers, broker, raised, step_log, history>>

\* Load.accept_bid has no failing path
ApiLoadAcceptBid ==
    /\ ~raised /\ last.n < MaxCalls
    /\ \E l \in DOMAIN loads, c \in CarrierIds, p \in Prices :
          /\ loads' = [loads EXCEPT ![l] = Load_accept_bid(@, c, p)]
          /\ last' = Call("Load.accept_bid", l, c, p)
    /\ UNCHANGED <<carriers, broker, raised, step_log, history>>

ApiCarrierAcceptLoad ==
    /\ ~raised /\ last.n < MaxCalls
    /\ \E l \in DOMAIN loads, c \in CarrierIds, p \in Prices :
          LET res == Carrier_accept_load(carriers[c], l, loads[l], p)
          IN  /\ carriers' = [carriers EXCEPT ![c] = res.carrier]
              /\ raised' = res.raised
              /\ last' = Call("Carrier.accept_load", l, c, p)
    /\ UNCHANGED <<loads, broker, step_log, history>>

ApiAcceptBid ==
    /\ ~raised /\ last.n < MaxCalls
    /\ \E l \in DOMAIN loads, c \in CarrierIds, p \in Prices, markup \in Markups :
          /\ Commit(FreightTech_accept_bid(World, l, c, p, markup))
          /\ last' = Call("FreightTech.accept_bid", l, c, p)

ApiHandleExpiredLoad ==
    /\ ~raised /\ last.n < MaxCalls
    /\ \E l \in DOMAIN loads :
          /\ Commit(handle_expired_load(World, l))
          /\ last' = Call("FreightTech.handle_expired_load", l, 0, NoneBid)

ApiCarrierStep ==
    /\ ~raised /\ last.n < MaxCalls
    /\ \E c \in CarrierIds :
          /\ carriers' = [carriers EXCEPT ![c] = Carrier_step(@, loads)]
          /\ last' = Call("Carrier.step", 0, c, NoneBid)
    /\ UNCHANGED <<loads, broker, raised, step_log, history>>

\* the call record carries the dictionary returned
ApiGetPerformanceSummary ==
    /\ ~raised /\ last.n < MaxCalls
    /\ last' = [op |-> "FreightTech.get_performance_summary", load |-> 0, carrier |-> 0,
                price |-> NoneBid, n |-> last.n + 1,
                result |-> get_performance_summary(broker)]
    /\ UNCHANGED <<loads, carriers, broker, raised, step_log, history>>

ApiCompleteCurrentLoad ==
    /\ ~raised /\ last.n < MaxCalls
    /\ \E c \in CarrierIds :
          /\ carriers' = [carriers EXCEPT ![c] = complete_current_load(@, loads)]
          /\ last' = Call("Carrier.complete_current_load", 0, c, NoneBid)
    /\ UNCHANGED <<loads, broker, raised, step_log, history>>

NextApi ==
    \/ ApiAddLoad
    \/ ApiUpdateLeadTime
    \/ ApiLoadAcceptBid
    \/ ApiCarrierAcceptLoad
    \/ ApiAcceptBid
    \/ ApiHandleExpiredLoad
    \/ ApiCarrierStep
    \/ ApiCompleteCurrentLoad
    \/ ApiGetPerformanceSummary

SpecApi == Init /\ [][NextApi]_vars

\* ------------------------------- the methods applied to drawn arguments
\* initial_lead_time and lead_time of the load under test
UnitTimes == {<<10, 10>>, <<10, 8>>, <<10, 4>>, <<10, 1>>, <<10, 0>>, <<0, 0>>, <<0, 1>>}
UnitRounds == {0, 2, 3}
UnitFailures == {0, 3}
UnitFixedCosts == {0, 1}
UnitTimeSteps == {0, 1, 3}
UnitBids == {90000, 100000, 120000, 140000}
ListBids == {90000, 95000, 100000, 140000}
UnitFactors == {90, 100, 110}

RECURSIVE ReceiveBids(_, _)
ReceiveBids(load, k) ==
    IF k = 0 THEN load ELSE ReceiveBids(receive_bid(load, 1, 120000), k - 1)

\* a load of market_rate 1000.00 that has aged from t[1] to t[2] and has had
\* k bids recorded
UnitLoad(t, k) ==
    ReceiveBids([NewLoad(<<30, 40>>, <<60, 80>>, 100000, t[1]) EXCEPT !.lead_time = t[2]], k)

\* lead_time / initial_lead_time raises ZeroDivisionError
UrgencyFails(load) == get_urgency_factor(load)[2] = 0

\* the bid lists a caller can pass: prices for a non-empty set of carriers, in
\* carrier enumeration order
BidLists ==
    UNION {{SelectSeq([i \in 1..NumCarriers |-> <<i, IF i \in S THEN f[i] ELSE NoneBid>>],
                      LAMBDA b : b[2] # NoneBid) : f \in [S -> ListBids]}
           : S \in (SUBSET CarrierIds) \ {{}}}

Returned(name, l, c, p, result) ==
    [op |-> name, load |-> l, carrier |-> c, price |-> p, n |-> last.n, result |-> result]

InitUnit ==
    /\ \E t \in UnitTimes, k \in UnitRounds : loads = <<UnitLoad(t, k)>>
    /\ \E d \in UnitFixedCosts :
          carriers = [i \in CarrierIds |-> [NewCarrier(i) EXCEPT !.fixed_cost = @ + d]]
    /\ \E cf \in UnitFailures :
          broker = [add_load(NewBroker, 1) EXCEPT !.consecutive_failures = cf]
    /\ raised = FALSE
    /\ step_log = EmptyLog
    /\ history = <<>>
    /\ last = [op |-> "none", load |-> 0, carrier |-> 0, price |-> NoneBid, n |-> 0,
               result |-> NoneBid]

UnitGetUrgencyFactor ==
    /\ ~raised
    /\ last' = Returned("Load.get_urgency_factor", 1, 0, NoneBid, get_urgency_factor(loads[1]))
    /\ raised' = UrgencyFails(loads[1])
    /\ UNCHANGED <<loads, carriers, broker, step_log, history>>

\* the call record keeps the time_step and the lead_time the call found
UnitUpdateLeadTime ==
    /\ ~raised
    /\ \E ts \in UnitTimeSteps :
          /\ loads' = [loads EXCEPT ![1] = update_lead_time(@, ts)]
          /\ last' = Returned("Load.update_lead_time", 1, 0, NoneBid,
                               <<ts, loads[1].lead_time>>)
    /\ UNCHANGED <<carriers, broker, raised, step_log, history>>

UnitLoadAcceptBid ==
    /\ ~raised
    /\ \E c \in CarrierIds :
          /\ loads' = [loads EXCEPT ![1] = Load_accept_bid(@, c, 100000)]
          /\ last' = Returned("Load.accept_bid", 1, c, 100000, NoneBid)
    /\ UNCHANGED <<carriers, broker, raised, step_log, history>>

UnitShouldAcceptBid ==
    /\ ~raised
    /\ \E bid \in UnitBids :
          last' = Returned("FreightTech.should_accept_bid", 1, 0, bid,
                           ~UrgencyFails(loads[1]) /\ should_accept_bid(broker, loads[1], bid))
    /\ raised' = UrgencyFails(loads[1])
    /\ UNCHANGED <<loads, carriers, broker, step_log, history>>

\* get_urgency_factor is reached only after is_interested_in_load
UnitGenerateBid ==
    /\ ~raised
    /\ \E c \in CarrierIds, mf \in UnitFactors :
          LET fails == is_interested_in_load(carriers[c], loads[1]) /\ UrgencyFails(loads[1])
          IN  /\ last' = Returned("Carrier.generate_bid", 1, c, mf,
                                  IF fails THEN NoneBid
                                  ELSE generate_bid(carriers[c], loads[1], mf))
              /\ raised' = fails
    /\ UNCHANGED <<loads, carriers, broker, step_log, history>>

\* One round of bids is processed for the drawn load.  should_accept_bid is
\* the first call process_bids makes on a non-empty list.
UnitProcessBids ==
    /\ ~raised
    /\ step_log = EmptyLog
    /\ \E bids \in BidLists, markup \in Markups :
          /\ IF UrgencyFails(loads[1])
             THEN /\ raised' = TRUE
                  /\ UNCHANGED <<loads, carriers, broker, step_log, history>>
             ELSE Commit(process_bids(World, 1, bids, markup))
          /\ last' = Returned("FreightTech.process_bids", 1, 0, NoneBid, bids)

\* Load and the broker's acceptance rule
NextUnit ==
    \/ UnitGetUrgencyFactor
    \/ UnitUpdateLeadTime
    \/ UnitLoadAcceptBid
    \/ UnitShouldAcceptBid

SpecUnit == InitUnit /\ [][NextUnit]_vars

\* a round of bids, and the bids the carriers make before and after it
NextBids ==
    \/ UnitProcessBids
    \/ UnitGenerateBid

SpecBids == InitUnit /\ [][NextBids]_vars

\* ----------------------------------- counter-offers on drawn arguments
\* market rates of 500.00, 1000.00 and 1000.02
CounterRates == {50000, 100000, 100002}
\* urgency 0, 0.4, 0.6, 0.8 and 0.9
CounterTimes == {<<10, 10>>, <<10, 6>>, <<10, 4>>, <<10, 2>>, <<10, 1>>}
\* the bids a counter-offer is asked for
CounterBids == {90000, 136503, 140000}
\* the counter-offers put to a carrier
CounterOffers == {44187, 44188, 50714, 50716}

InitCounter ==
    /\ \E m \in CounterRates, t \in CounterTimes, k \in UnitRounds :
          loads = <<[UnitLoad(t, k) EXCEPT !.market_rate = m]>>
    /\ carriers = [i \in CarrierIds |-> NewCarrier(i)]
    /\ \E cf \in UnitFailures :
          broker = [add_load(NewBroker, 1) EXCEPT !.consecutive_failures = cf]
    /\ raised = FALSE
    /\ step_log = EmptyLog
    /\ history = <<>>
    /\ last = [op |-> "none", load |-> 0, carrier |-> 0, price |-> NoneBid, n |-> 0,
               result |-> NoneBid]

\* the calls are made on the load as drawn
UnitGenerateCounterOffer ==
    /\ ~raised
    /\ step_log = EmptyLog
    /\ \E bid \in CounterBids :
          last' = Returned("FreightTech.generate_counter_offer", 1, 0, bid,
                           generate_counter_offer(broker, loads[1], bid))
    /\ UNCHANGED <<loads, carriers, broker, raised, step_log, history>>

UnitCarrierAcceptsCounter ==
    /\ ~raised
    /\ step_log = EmptyLog
    /\ \E c \in CarrierIds, counter_offer \in CounterOffers :
          last' = Returned("FreightTech.carrier_accepts_counter", 1, c, counter_offer,
                           carrier_accepts_counter(carriers[c], loads[1], counter_offer))
    /\ UNCHANGED <<loads, carriers, broker, raised, step_log, history>>

\* a round with one bidder, at the prices a counter-offer is asked for
UnitProcessOneBid ==
    /\ ~raised
    /\ step_log = EmptyLog
    /\ \E c \in CarrierIds, bid \in CounterBids, markup \in Markups :
          /\ Commit(process_bids(World, 1, <<<<c, bid>>>>, markup))
          /\ last' = Returned("FreightTech.process_bids", 1, 0, NoneBid, <<<<c, bid>>>>)

NextCounter ==
    \/ UnitGenerateCounterOffer
    \/ UnitCarrierAcceptsCounter
    \/ UnitProcessBids
    \/ UnitProcessOneBid

SpecCounter == InitCounter /\ [][NextCounter]_vars

\* ------------------------------------------ lead times as binary64 floats
\* The lead_time of a load and time_step are Python floats.  A binary64 value
\* v with 0 <= v <= 5 is kept as <<hi, lo>>, standing for
\* (hi * 2^30 + lo) * 2^-56 with 0 <= lo < 2^30; every value the decay of a
\* lead time between 0.5 and 5.0 by 0.1 produces is of that form.
MaxDecaySteps == 22

\* the float 0.1: 7205759403792794 * 2^-56
time_step_binary64 == <<6710886, 429496730>>

\* the floats 0.5, 0.8, 1.5 and 2.0
DecayLeadTimes == {<<33554432, 0>>, <<53687091, 214748368>>,
                   <<100663296, 0>>, <<134217728, 0>>}

\* a load no carrier of the population finds profitable
DecayRates == {10000}

DLe(x, y) == x[1] < y[1] \/ (x[1] = y[1] /\ x[2] <= y[2])

\* the real difference x - y, for y <= x
DSubExact(x, y) ==
    IF x[2] >= y[2] THEN <<x[1] - y[1], x[2] - y[2]>>
    ELSE <<x[1] - y[1] - 1, (x[2] - y[2]) + 2^30>>

\* the bits v has beyond the 53 of a binary64 significand
RECURSIVE ExcessBits(_)
ExcessBits(hi) == IF hi < 2^23 THEN 0 ELSE 1 + ExcessBits(hi \div 2)

\* round to nearest, ties to even
DRound(v) ==
    LET q == 2^ExcessBits(v[1])
        r == v[2] % q
        down == v[2] - r
        up == 2 * r > q \/ (2 * r = q /\ (v[2] \div q) % 2 = 1)
    IN  IF ~up THEN <<v[1], down>>
        ELSE IF down + q = 2^30 THEN <<v[1] + 1, 0>>
        ELSE <<v[1], down + q>>

\* max(0, x - y) in binary64
DSubClamped(x, y) == IF DLe(x, y) THEN <<0, 0>> ELSE DRound(DSubExact(x, y))

\* Load.update_lead_time on a float lead_time
update_lead_time_binary64(load, ts) ==
    LET lt == DSubClamped(load.lead_time, ts)
    IN  [load EXCEPT !.lead_time = lt,
                     !.is_expired = IF lt = <<0, 0>> /\ ~load.is_covered THEN TRUE ELSE @]

RECURSIVE DecayLoop_binary64(_, _)
DecayLoop_binary64(w, i) ==
    IF i > Len(w.broker.active_loads) THEN w
    ELSE LET l == w.broker.active_loads[i]
         IN  DecayLoop_binary64(
                 [w EXCEPT !.loads[l] = update_lead_time_binary64(@, time_step_binary64)],
                 i + 1)

\* FreightTech.step over loads with float lead times
FreightTech_step_binary64(w, mf, markup) ==
    LET w0 == [w EXCEPT !.step_log = EmptyLog]
        w1 == DecayLoop_binary64(w0, 1)
        expired_loads == SelectSeq(w1.broker.active_loads,
                                   LAMBDA l : w1.loads[l].is_expired)
        w2 == ExpireLoop(w1, expired_loads)
        w3 == [w2 EXCEPT !.step_log.after_decay = w2.broker.active_loads]
        w4 == BidLoop(w3, 1, mf, markup)
    IN  IF w2.raised THEN w2
        ELSE IF w4.raised THEN w4
        ELSE [w4 EXCEPT !.broker = update_metrics(@)]

\* the carriers that come to bid in a step from w
Bidders_binary64(w) ==
    LET w1 == DecayLoop_binary64(w, 1)
    IN  {c \in DOMAIN w.carriers :
            \E i \in 1..Len(w1.broker.active_loads) :
                is_interested_in_load(w1.carriers[c], w1.loads[w1.broker.active_loads[i]])}

\* add_load has been called BacklogLoads times on a new broker, with loads
\* built by Load(...)
InitDecay ==
    /\ loads \in [1..BacklogLoads ->
                     {NewLoad(<<30, 40>>, <<60, 80>>, mr, lt) :
                          mr \in DecayRates, lt \in DecayLeadTimes}]
    /\ carriers = [i \in CarrierIds |-> NewCarrier(i)]
    /\ broker = [NewBroker EXCEPT !.active_loads = [i \in 1..BacklogLoads |-> i],
                                  !.pending_negotiations = 1..BacklogLoads]
    /\ raised = FALSE
    /\ step_log = EmptyLog
    /\ history = <<>>
    /\ last = [op |-> "none", load |-> 0, carrier |-> 0, price |-> NoneBid, n |-> 0]

\* last.n counts the broker's steps since the loads were added
DecayStep ==
    /\ ~raised
    /\ last.n < MaxDecaySteps
    /\ \E mf \in [Bidders_binary64(World) -> MarketFactors], markup \in Markups :
          Commit(FreightTech_step_binary64(World, mf, markup))
    /\ last' = Call("FreightTech.step", 0, 0, NoneBid)

NextDecay == DecayStep

SpecDecay == InitDecay /\ [][NextDecay]_vars

\* ----------------------------- bid rounds on loads with float lead times
\* the floats 0.5 and 1.0: dividing by them is exact in binary64
ResidueLeadTimes == {<<33554432, 0>>, <<67108864, 0>>}

\* the bids of a round: 125.00 and 135.00 on a load of market_rate 100.00
ResidueBids == {12500, 13500}

\* the floats 0.3, 0.5, 0.7, 0.8, 0.9 and 1.0 of the comparisons, in units of 2^-56
Binary64_03 == <<20132659, 214748364>>
Binary64_05 == <<33554432, 0>>
Binary64_07 == <<46976204, 858993456>>
Binary64_08 == <<53687091, 214748368>>
Binary64_09 == <<60397977, 644245096>>
Binary64_1 == <<67108864, 0>>

DLt(x, y) == ~DLe(y, x)

\* 2 * x, which is exact
DTwice(x) ==
    IF 2 * x[2] >= 2^30 THEN <<2 * x[1] + 1, 2 * x[2] - 2^30>> ELSE <<2 * x[1], 2 * x[2]>>

\* Load.get_urgency_factor on float lead times, for an initial_lead_time of
\* 0.5 or 1.0: the quotient is exact and the subtraction from 1 is rounded
get_urgency_factor_binary64(load) ==
    IF load.lead_time = <<0, 0>> THEN Binary64_1
    ELSE LET quotient == CASE load.initial_lead_time = Binary64_05 -> DTwice(load.lead_time)
                           [] load.initial_lead_time = Binary64_1 -> load.lead_time
         IN  DRound(DSubExact(Binary64_1, quotient))

get_urgency_threshold_binary64(load) ==
    LET base_threshold == Frac(load.market_rate)
        urgency_factor == get_urgency_factor_binary64(load)
    IN  IF DLt(Binary64_08, urgency_factor) THEN RMul(base_threshold, <<130, 100>>)
        ELSE IF DLt(Binary64_05, urgency_factor) THEN RMul(base_threshold, <<115, 100>>)
        ELSE RMul(base_threshold, <<95, 100>>)

should_accept_bid_binary64(b, load, bid) ==
    LET threshold == get_urgency_threshold_binary64(load)
        urgency == get_urgency_factor_binary64(load)
        penalty_cost == get_penalty_cost(load, b.consecutive_failures)
    IN  IF RLe(Frac(bid), threshold) THEN TRUE
        ELSE IF RLt(Frac(bid), penalty_cost) THEN TRUE
        ELSE IF DLt(Binary64_09, urgency) /\ load.negotiation_rounds >= 2 THEN TRUE
        ELSE FALSE

generate_counter_offer_binary64(b, load, original_bid) ==
    IF load.negotiation_rounds >= max_negotiation_rounds THEN NoneBid
    ELSE LET threshold == get_urgency_threshold_binary64(load)
             urgency == get_urgency_factor_binary64(load)
             band == IF DLt(urgency, Binary64_03) THEN RMul(threshold, <<90, 100>>)
                     ELSE IF DLt(urgency, Binary64_07) THEN RMul(threshold, <<95, 100>>)
                     ELSE RMul(threshold, <<105, 100>>)
             min_counter == RMul(Frac(load.market_rate), <<80, 100>>)
             counter == RMax(band, min_counter)
         IN  IF RLe(Frac(original_bid), counter) THEN NoneBid
             ELSE Round2(counter)

\* FreightTech.process_bids on a load with float lead times
process_bids_binary64(w, l, bids, markup) ==
    IF bids = <<>> THEN w
    ELSE LET sorted_bids == SortBids(bids)
             best_carrier_id == sorted_bids[1][1]
             best_bid == sorted_bids[1][2]
             load == w.loads[l]
             counter_offer == generate_counter_offer_binary64(w.broker, load, best_bid)
             carrier == w.carriers[best_carrier_id]
             note(o, p) == [load |-> l, bids |-> bids, outcome |-> o,
                            carrier |-> best_carrier_id, price |-> p,
                            counter |-> IF o = "accept" THEN NoneBid ELSE counter_offer,
                            terminal |-> load.is_covered \/ load.is_expired,
                            busy |-> ~carrier.is_available]
         IN  IF should_accept_bid_binary64(w.broker, load, best_bid)
             THEN FreightTech_accept_bid(
                      [w EXCEPT !.step_log.rounds = Append(@, note("accept", best_bid))],
                      l, best_carrier_id, best_bid, markup)
             ELSE IF counter_offer # NoneBid
                     /\ carrier_accepts_counter(carrier, load, counter_offer)
             THEN FreightTech_accept_bid(
                      [w EXCEPT !.step_log.rounds = Append(@, note("counter", counter_offer))],
                      l, best_carrier_id, counter_offer, markup)
             ELSE [w EXCEPT !.loads[l] = receive_bid(load, best_carrier_id, best_bid),
                            !.step_log.rounds = Append(@, note("record", best_bid))]

\* add_load has been called MaxLoads times on a new broker, with loads built
\* by Load(...)
InitResidue ==
    /\ loads \in [1..MaxLoads ->
                     {NewLoad(<<30, 40>>, <<60, 80>>, mr, lt) :
                          mr \in DecayRates, lt \in ResidueLeadTimes}]
    /\ carriers = [i \in CarrierIds |-> NewCarrier(i)]
    /\ broker = [NewBroker EXCEPT !.active_loads = [i \in 1..MaxLoads |-> i],
                                  !.pending_negotiations = 1..MaxLoads]
    /\ raised = FALSE
    /\ step_log = EmptyLog
    /\ history = <<>>
    /\ last = [op |-> "none", load |-> 0, carrier |-> 0, price |-> NoneBid, n |-> 0]

\* a caller passes one carrier's bid for an active load to process_bids, up
\* to MaxCalls recorded rounds a load
ResidueProcessBids ==
    /\ ~raised
    /\ \E i \in 1..Len(broker.active_loads), c \in CarrierIds, bid \in ResidueBids,
          markup \in Markups :
          /\ loads[broker.active_loads[i]].negotiation_rounds < MaxCalls
          /\ Commit(process_bids_binary64([World EXCEPT !.step_log = EmptyLog],
                                          broker.active_loads[i], <<<<c, bid>>>>, markup))
          /\ last' = [op |-> "FreightTech.process_bids", load |-> broker.active_loads[i],
                      carrier |-> c, price |-> bid, n |-> last.n]

NextResidue == DecayStep \/ ResidueProcessBids

SpecResidue == InitResidue /\ [][NextResidue]_vars

\* -------------------------------------------- model steps over more loads
LedgerLoads == 3

LedgerStep ==
    /\ ~raised
    /\ \E new_load \in {<<>>} \cup (IF Len(loads) < LedgerLoads THEN LoadKinds ELSE {}) :
          \E mf \in [Bidders(WithNewLoad(World, new_load)) -> MarketFactors],
             markup \in Markups :
             Commit(Model_step(World, new_load, mf, markup))
    /\ UNCHANGED last

NextLedger == LedgerStep

SpecLedger == InitModel /\ [][NextLedger]_vars

\* ------------------------------------------------ money as binary64 floats
\* total_cost and total_revenue are Python floats.  An amount of dollars is
\* kept as <<hi, lo>>, standing for (hi * 2^30 + lo) * 2^-47 with
\* 0 <= lo < 2^30, which holds every binary64 value from 64 up to 8192.

\* round to nearest, ties to even; inexact says that v is the floor of a
\* value that is not a multiple of the unit
DRoundInexact(v, inexact) ==
    LET q == 2^ExcessBits(v[1])
        r == v[2] % q
        down == v[2] - r
        up == 2 * r > q \/ (2 * r = q /\ (inexact \/ (v[2] \div q) % 2 = 1))
    IN  IF ~up THEN <<v[1], down>>
        ELSE IF down + q = 2^30 THEN <<v[1] + 1, 0>>
        ELSE <<v[1], down + q>>

\* x + y in binary64
DAdd(x, y) ==
    IF x[2] + y[2] >= 2^30 THEN DRound(<<x[1] + y[1] + 1, (x[2] + y[2]) - 2^30>>)
    ELSE DRound(<<x[1] + y[1], x[2] + y[2]>>)

\* p is <<q, r>> with q = floor(x) and r = 100 * (x - q): the pair for x * 2^s
ShiftBy(p, s) ==
    <<<<p[1][1] * 2^s + p[1][2] \div 2^(30 - s),
        (p[1][2] % 2^(30 - s)) * 2^s + (p[2] * 2^s) \div 100>>,
      (p[2] * 2^s) % 100>>

\* round(bid, 2): the float nearest to a price of n cents, n / 100 * 2^47 units
Binary64OfCents(n) ==
    LET qr == ShiftBy(ShiftBy(ShiftBy(<<<<0, n \div 100>>, n % 100>>, 15), 16), 16)
    IN  DRoundInexact(qr[1], qr[2] > 0)

\* the value of a float that started at 0 and had the prices added in order
RECURSIVE FloatSum(_)
FloatSum(prices) ==
    IF prices = <<>> THEN <<0, 0>>
    ELSE DAdd(FloatSum(SubSeq(prices, 1, Len(prices) - 1)),
              Binary64OfCents(prices[Len(prices)][1]))

\* ----------------------------------------------------------------- claims
LoadIds == DOMAIN loads

Count(seq, x) == Cardinality({i \in 1..Len(seq) : seq[i] = x})

\* C1: in every state reachable by add_load, broker steps and carrier steps,
\* no load is both covered and expired.
C1_NeverCoveredAndExpired ==
    \A l \in LoadIds : ~(loads[l].is_covered /\ loads[l].is_expired)

C1_Witness ==
    /\ \E l \in LoadIds : loads[l].is_covered
    /\ \E l \in LoadIds : loads[l].is_expired

\* C2: every load ever added is in exactly one of active_loads, completed_loads
\* and expired_loads, exactly once; active loads are neither covered nor
\* expired, completed loads are covered, expired loads are expired.
C2_OneCollectionPerLoad ==
    \A l \in LoadIds :
        /\ Count(broker.active_loads, l) + Count(broker.completed_loads, l)
             + Count(broker.expired_loads, l) = 1
        /\ InSeq(l, broker.active_loads) => ~loads[l].is_covered /\ ~loads[l].is_expired
        /\ InSeq(l, broker.completed_loads) => loads[l].is_covered
        /\ InSeq(l, broker.expired_loads) => loads[l].is_expired

C2_Witness ==
    /\ broker.completed_loads # <<>>
    /\ broker.expired_loads # <<>>

\* C3: a load in completed_loads or expired_loads stays in that collection and
\* in no other, and none of its fields changes, in every later step.
C3_TerminalIsPermanent ==
    [][\A l \in LoadIds :
          /\ InSeq(l, broker.completed_loads) =>
                /\ Count(broker'.completed_loads, l) = 1
                /\ ~InSeq(l, broker'.active_loads)
                /\ ~InSeq(l, broker'.expired_loads)
                /\ loads'[l] = loads[l]
          /\ InSeq(l, broker.expired_loads) =>
                /\ Count(broker'.expired_loads, l) = 1
                /\ ~InSeq(l, broker'.active_loads)
                /\ ~InSeq(l, broker'.completed_loads)
                /\ loads'[l] = loads[l]]_vars

\* a broker step ran its bid rounds while an earlier load was already terminal
C3_Witness ==
    /\ step_log.rounds # <<>>
    /\ \E l \in LoadIds :
          /\ InSeq(l, broker.completed_loads) \/ InSeq(l, broker.expired_loads)
          /\ ~InSeq(l, step_log.after_decay)
          /\ \A i \in 1..Len(step_log.rounds) : step_log.rounds[i].load # l
          /\ \A i \in 1..Len(history) : history[i].load = l => i < Len(history)

RoundsOf(l) == {i \in 1..Len(step_log.rounds) : step_log.rounds[i].load = l}

\* C4: in a broker step every load that is active and uncovered after the
\* decay phase has bids solicited exactly once.
C4_EveryActiveLoadSolicitedOnce ==
    \A i \in 1..Len(step_log.after_decay) :
        Cardinality(RoundsOf(step_log.after_decay[i])) = 1

Called(name) == last'.n # last.n /\ last'.op = name

\* C5: Load.accept_bid on a load already covered or expired fails with an
\* error and neither sets is_covered nor changes assigned_carrier_id or
\* current_bid.
C5_LoadAcceptBidRejectsTerminal ==
    [][(/\ Called("Load.accept_bid")
        /\ loads[last'.load].is_covered \/ loads[last'.load].is_expired)
       => (/\ raised'
           /\ loads'[last'.load].is_covered = loads[last'.load].is_covered
           /\ loads'[last'.load].assigned_carrier_id = loads[last'.load].assigned_carrier_id
           /\ loads'[last'.load].current_bid = loads[last'.load].current_bid)]_vars

\* C6: Carrier.accept_load on an unavailable carrier fails with an error and
\* leaves current_load, is_available, total_revenue and total_profit unchanged.
C6_BusyCarrierRejectsLoad ==
    [][(Called("Carrier.accept_load") /\ ~carriers[last'.carrier].is_available)
       => (/\ raised'
           /\ carriers'[last'.carrier].current_load = carriers[last'.carrier].current_load
           /\ carriers'[last'.carrier].is_available = carriers[last'.carrier].is_available
           /\ carriers'[last'.carrier].total_revenue = carriers[last'.carrier].total_revenue
           /\ carriers'[last'.carrier].total_profit = carriers[last'.carrier].total_profit)]_vars

C6_Witness ==
    /\ last.op = "Carrier.accept_load"
    /\ raised
    /\ ~carriers[last.carrier].is_available
    /\ carriers[last.carrier].current_load # last.load

Accepted(r) == r.outcome \in {"accept", "counter"}

C8_AcceptBidPostcondition ==
    [][(/\ Called("FreightTech.accept_bid")
        /\ InSeq(last'.load, broker.active_loads)
        /\ carriers[last'.carrier].is_available)
       => (/\ loads'[last'.load].is_covered
           /\ loads'[last'.load].assigned_carrier_id = last'.carrier
           /\ ~carriers'[last'.carrier].is_available
           /\ carriers'[last'.carrier].current_load = last'.load
           /\ broker'.consecutive_failures = 0
           /\ InSeq(last'.load, broker'.completed_loads)
           /\ ~InSeq(last'.load, broker'.active_loads)
           /\ broker'.total_cost = broker.total_cost + last'.price)]_vars

\* accept_bid succeeded after an expiration had raised consecutive_failures
C8_Witness ==
    /\ last.op = "FreightTech.accept_bid"
    /\ ~raised
    /\ InSeq(last.load, broker.completed_loads)
    /\ broker.expired_loads # <<>>
    /\ broker.total_cost = last.price

SameAmount(x, y) == x[1] * y[2] = y[1] * x[2]

\* the position in history of the last acceptance, 0 when there is none
LastCovered ==
    LET covered == {i \in 1..Len(history) : history[i].kind = "covered"}
    IN  IF covered = {} THEN 0 ELSE CHOOSE i \in covered : \A j \in covered : j <= i

\* the expirations since the last acceptance, as positions in history
Streak == (LastCovered + 1)..Len(history)

\* C9: consecutive_failures is the number of loads that expired since the
\* most recent acceptance (or since the start): one more per expired load, 0
\* after every acceptance, at a bid or at a counter-offer price.
C9_FailuresCountExpirationsSinceCover ==
    broker.consecutive_failures = Cardinality(Streak)

\* an acceptance at a counter-offer price has reset a count that was above 0
C9_Witness ==
    /\ \E i \in 1..Len(step_log.rounds) : step_log.rounds[i].outcome = "counter"
    /\ LastCovered = Len(history)
    /\ LastCovered > 1
    /\ history[LastCovered - 1].kind = "expired"
    /\ broker.consecutive_failures = 0

RECURSIVE SumExpired(_)
SumExpired(h) ==
    IF h = <<>> THEN <<0, 1>>
    ELSE IF h[Len(h)].kind = "expired"
         THEN RAdd(SumExpired(SubSeq(h, 1, Len(h) - 1)), h[Len(h)].amount)
         ELSE SumExpired(SubSeq(h, 1, Len(h) - 1))

\* market_rate * penalty_rate of a load, in cents
BasePenalty(l) == <<loads[l].market_rate * loads[l].penalty_rate, 100>>

\* what the k-th expiration of a streak, k from 0, is to add for load l
Escalated(l, k) == <<loads[l].market_rate * loads[l].penalty_rate * (10 + k), 1000>>

C10_CountAndEscalation ==
    /\ broker.consecutive_failures = Cardinality(Streak)
    /\ SameAmount(broker.total_penalties, SumExpired(history))
    /\ \A i \in Streak :
          /\ RLt(<<0, 1>>, history[i].amount)
          /\ SameAmount(history[i].amount, Escalated(history[i].load, i - LastCovered - 1))

\* C10 (as claimed): after N consecutive expirations consecutive_failures is
\* N, every expiration has added a positive penalty of market_rate *
\* penalty_rate * (1 + 0.1 k), and each increment is at least the previous one.
C10_IncrementsNeverDecrease ==
    ~raised =>
        /\ C10_CountAndEscalation
        /\ \A i \in Streak :
              i + 1 \in Streak => RLe(history[i].amount, history[i + 1].amount)

\* C10 (amended): as above, where an increment is at least the previous one
\* when the expiring load's market_rate * penalty_rate is at least that of
\* the load that expired before it.
C10_IncrementsFollowBasePenalty ==
    ~raised =>
        /\ C10_CountAndEscalation
        /\ \A i \in Streak :
              (i + 1 \in Streak
               /\ RLe(BasePenalty(history[i].load), BasePenalty(history[i + 1].load)))
              => RLe(history[i].amount, history[i + 1].amount)

\* two expirations in a row, the second with the larger increment
C10_Witness ==
    /\ ~raised
    /\ Cardinality(Streak) >= 2
    /\ last.op = "FreightTech.handle_expired_load"
    /\ RLt(history[Len(history) - 1].amount, history[Len(history)].amount)

\* the rounds of bids the last broker call processed
Rounds == {step_log.rounds[i] : i \in 1..Len(step_log.rounds)}

\* position k of a bid list holds the lowest price, and no earlier position does
FirstLowest(bids, k) ==
    /\ \A j \in 1..Len(bids) : bids[k][2] <= bids[j][2]
    /\ \A j \in 1..(k - 1) : bids[j][2] > bids[k][2]

\* C11: the carrier process_bids accepts, counters or records is the one whose
\* bid is the lowest of the round, and among equal lowest bids the one met
\* first in carrier enumeration order; the load carries that carrier.
C11_LowestBidFirstEncountered ==
    \A r \in Rounds :
        r.bids # <<>> =>
            \E k \in 1..Len(r.bids) :
                /\ FirstLowest(r.bids, k)
                /\ r.carrier = r.bids[k][1]
                /\ r.outcome \in {"accept", "counter", "record"}
                /\ r.outcome = "accept" => r.price = r.bids[k][2]
                /\ (Accepted(r) /\ ~raised) =>
                       /\ loads[r.load].assigned_carrier_id = r.bids[k][1]
                       /\ loads[r.load].current_bid = r.price
                /\ r.outcome = "record" =>
                       /\ loads[r.load].current_bidder_id = r.bids[k][1]
                       /\ loads[r.load].current_bid = r.bids[k][2]

\* two carriers bid the same lowest price and the first of them got the load
C11_Witness ==
    \E r \in Rounds :
        /\ Len(r.bids) >= 2
        /\ r.bids[1][2] = r.bids[2][2]
        /\ FirstLowest(r.bids, 1)
        /\ r.outcome = "accept"
        /\ loads[r.load].assigned_carrier_id = r.bids[1][1]

\* the lowest price of a bid list
LowestPrice(bids) == CHOOSE p \in {bids[k][2] : k \in 1..Len(bids)} :
                         \A k \in 1..Len(bids) : p <= bids[k][2]

\* the three grounds for accepting a bid outright, as fractions of market_rate
ThresholdOf(load) ==
    LET u == get_urgency_factor(load)
    IN  IF RLt(<<8, 10>>, u) THEN <<load.market_rate * 130, 100>>
        ELSE IF RLt(<<5, 10>>, u) THEN <<load.market_rate * 115, 100>>
        ELSE <<load.market_rate * 95, 100>>

WithinThreshold(load, bid) == RLe(Frac(bid), ThresholdOf(load))

BelowPenalty(load, failures, bid) ==
    RLt(Frac(bid), <<load.market_rate * load.penalty_rate * (10 + failures), 1000>>)

Desperate(load) ==
    RLt(<<9, 10>>, get_urgency_factor(load)) /\ load.negotiation_rounds >= 2

\* C12: process_bids accepts the lowest bid outright exactly when the bid is
\* at most the urgency threshold (market_rate * 1.3 above urgency 0.8, * 1.15
\* above 0.5, else * 0.95), or below the penalty cost at the current failure
\* count, or urgency is above 0.9 after at least two rounds; the load is then
\* covered at that bid.
C12_AcceptsOutrightIffRule ==
    [][(last'.op = "FreightTech.process_bids" /\ ~raised')
       => LET r == step_log'.rounds[1]
              bid == LowestPrice(r.bids)
              load == loads[r.load]
          IN  /\ (r.outcome = "accept")
                     <=> \/ WithinThreshold(load, bid)
                         \/ BelowPenalty(load, broker.consecutive_failures, bid)
                         \/ Desperate(load)
              /\ r.outcome = "accept" =>
                     /\ loads'[r.load].is_covered
                     /\ loads'[r.load].current_bid = bid]_vars

\* market_rate 1000, urgency 0.2, lowest bid 900: accepted outright at 900
C12_Witness ==
    /\ last.op = "FreightTech.process_bids"
    /\ ~raised
    /\ loads[1].market_rate = 100000
    /\ get_urgency_factor(loads[1]) = <<1, 5>>
    /\ LowestPrice(last.result) = 90000
    /\ step_log.rounds[1].outcome = "accept"
    /\ loads[1].is_covered
    /\ loads[1].current_bid = 90000

\* should_accept_bid has returned for the load under test
Decided == last.op = "FreightTech.should_accept_bid" /\ ~raised

\* market_rate 1000, urgency 0.9, at least two rounds, penalty cost 260, bid 1200
C13_Scenario ==
    /\ Decided
    /\ loads[1].market_rate = 100000
    /\ get_urgency_factor(loads[1]) = <<9, 10>>
    /\ loads[1].negotiation_rounds >= 2
    /\ get_penalty_cost(loads[1], broker.consecutive_failures) = <<26000, 1>>
    /\ last.price = 120000

AboveThreshold == RLt(get_urgency_threshold(loads[1]), Frac(last.price))

NotBelowPenalty ==
    RLe(get_penalty_cost(loads[1], broker.consecutive_failures), Frac(last.price))

\* C13 (as claimed): in the scenario the bid is above the urgency threshold
\* and not below the penalty, and is accepted because urgency is above 0.9
\* after at least two rounds.
C13_ScenarioAcceptedByOverride ==
    C13_Scenario =>
        /\ last.result
        /\ AboveThreshold
        /\ NotBelowPenalty
        /\ RLt(<<9, 10>>, get_urgency_factor(loads[1]))

\* C13 (amended): in the scenario the bid is accepted because it is within
\* the urgency threshold of 1300, urgency 0.9 being above 0.8 and not above
\* 0.9; and a bid above the threshold and not below the penalty is accepted
\* exactly when urgency is above 0.9 after at least two rounds.
C13_OverrideNeedsUrgencyAbovePoint9 ==
    /\ C13_Scenario =>
           /\ last.result
           /\ ~AboveThreshold
           /\ get_urgency_threshold(loads[1]) = <<130000, 1>>
           /\ NotBelowPenalty
           /\ ~RLt(<<9, 10>>, get_urgency_factor(loads[1]))
    /\ (Decided /\ AboveThreshold /\ NotBelowPenalty) =>
           (last.result <=> Desperate(loads[1]))

\* the scenario has been decided, and accepted
C13_Witness == C13_Scenario /\ last.result

\* update_lead_time has returned for the load under test
Aged == last'.op = "Load.update_lead_time"

\* C14: once a load is covered or expired, update_lead_time with any
\* time_step >= 0 leaves is_covered and is_expired as they were; a covered
\* load whose lead_time reaches 0 does not become expired.
C14_AgeingKeepsTerminalStatus ==
    [][(Aged /\ (loads[1].is_covered \/ loads[1].is_expired))
       => /\ loads'[1].is_covered = loads[1].is_covered
          /\ loads'[1].is_expired = loads[1].is_expired]_vars

\* a covered load has been aged from a positive lead_time to 0 and is not expired
C14_Witness ==
    /\ last.op = "Load.update_lead_time"
    /\ last.result[2] > 0
    /\ loads[1].lead_time = 0
    /\ loads[1].is_covered
    /\ ~loads[1].is_expired

\* 0 <= lead_time <= initial_lead_time and initial_lead_time > 0
WithinLeadTime(load) ==
    /\ load.initial_lead_time > 0
    /\ 0 <= load.lead_time
    /\ load.lead_time <= load.initial_lead_time

UrgencyInRange(load) ==
    LET u == get_urgency_factor(load)
    IN  /\ RLe(<<0, 1>>, u) /\ RLe(u, <<1, 1>>)
        /\ load.lead_time = load.initial_lead_time => SameAmount(u, <<0, 1>>)
        /\ load.lead_time <= 0 => SameAmount(u, <<1, 1>>)

\* C15: for a load with 0 <= lead_time <= initial_lead_time and
\* initial_lead_time > 0, urgency_factor is in [0, 1], is 0 when lead_time is
\* initial_lead_time and 1 when lead_time is 0, and update_lead_time with a
\* time_step >= 0 never lowers it.
C15_UrgencyBoundedAndMonotone ==
    [][WithinLeadTime(loads[1])
       => /\ UrgencyInRange(loads[1])
          /\ WithinLeadTime(loads'[1])
          /\ UrgencyInRange(loads'[1])
          /\ Aged => RLe(get_urgency_factor(loads[1]), get_urgency_factor(loads'[1]))]_vars

\* ageing has raised the urgency of a load to a value strictly between 0 and 1
C15_Witness ==
    /\ last.op = "Load.update_lead_time"
    /\ WithinLeadTime(loads[1])
    /\ last.result[2] > loads[1].lead_time
    /\ RLt(<<0, 1>>, get_urgency_factor(loads[1]))
    /\ RLt(get_urgency_factor(loads[1]), <<1, 1>>)

\* C16: get_urgency_factor on a load with initial_lead_time 0 returns 1.0 and
\* does not fail with a division by zero, whatever lead_time is.
C16_ZeroInitialLeadTimeIsMaximal ==
    (last.op = "Load.get_urgency_factor" /\ loads[1].initial_lead_time = 0)
        => /\ ~raised
           /\ last.result = <<1, 1>>

\* C17: generate_bid returns no bid exactly when is_interested_in_load is
\* false, so never for an unavailable carrier, and a bid it returns, rounded
\* to cents, is never below 1.05 times the carrier's cost of the load.
C17_BidNeverBelowMarginFloor ==
    (last.op = "Carrier.generate_bid" /\ ~raised)
        => LET c == carriers[last.carrier]
               floor == <<calculate_cost(c, loads[1]) * 105, 100>>
           IN  /\ (last.result = NoneBid) <=> ~is_interested_in_load(c, loads[1])
               /\ ~c.is_available => last.result = NoneBid
               /\ last.result # NoneBid => RLe(floor, Frac(last.result))

\* C18: through accept_load, complete_current_load and step, a carrier is
\* available exactly when it holds no load.
C18_AvailableIffNoCurrentLoad ==
    \A c \in CarrierIds : carriers[c].is_available <=> carriers[c].current_load = 0

\* a carrier that accepted a load has completed it and is available again
C18_Witness ==
    /\ last.op = "Carrier.complete_current_load"
    /\ carriers[last.carrier].loads_completed = 1
    /\ carriers[last.carrier].is_available
    /\ carriers[last.carrier].current_load = 0
    /\ \E c \in CarrierIds : ~carriers[c].is_available /\ carriers[c].current_load # 0

\* completed + expired of a broker
Handled(b) == Len(b.completed_loads) + Len(b.expired_loads)

\* coverage_rate of a broker is completed / (completed + expired), or the
\* initial 0 while nothing is completed or expired
CoverageIsCurrent(b) ==
    /\ b.coverage_rate[2] # 0
    /\ IF Handled(b) > 0
       THEN SameAmount(b.coverage_rate, <<Len(b.completed_loads), Handled(b)>>)
       ELSE b.coverage_rate = <<0, 1>>

\* C19: after every broker step coverage_rate is completed / (completed +
\* expired) when that sum is positive; while the sum is 0 it keeps its prior
\* value, initially 0, and nothing is divided by zero.
C19_CoverageRateAfterStep ==
    [][(~raised /\ ~raised')
       => /\ CoverageIsCurrent(broker)
          /\ CoverageIsCurrent(broker')
          /\ Handled(broker') = 0 => broker'.coverage_rate = broker.coverage_rate]_vars

\* a step has ended with one load covered and one expired: coverage_rate 1/2
C19_Witness ==
    /\ step_log.rounds # <<>>
    /\ Len(broker.completed_loads) = 1
    /\ Len(broker.expired_loads) = 1
    /\ broker.coverage_rate = <<1, 2>>

\* get_performance_summary has returned
Summarised == last.op = "FreightTech.get_performance_summary"

\* C20: get_performance_summary does not fail; profit is total_revenue -
\* total_cost - total_penalties, total_loads_handled is loads_covered +
\* loads_expired, active_loads is the length of active_loads, and
\* profit_margin is 0 when total_revenue is 0 and profit / total_revenue
\* otherwise.
C20_SummaryIsConsistent ==
    Summarised =>
        LET s == last.result
        IN  /\ s.total_revenue = broker.total_revenue
            /\ s.total_cost = broker.total_cost
            /\ s.total_penalties = broker.total_penalties
            /\ SameAmount(RAdd(RAdd(s.profit, Frac(s.total_cost)), s.total_penalties),
                          Frac(s.total_revenue))
            /\ s.loads_covered = Len(broker.completed_loads)
            /\ s.loads_expired = Len(broker.expired_loads)
            /\ s.total_loads_handled = s.loads_covered + s.loads_expired
            /\ s.active_loads = Len(broker.active_loads)
            /\ s.profit_margin[2] # 0
            /\ s.total_revenue = 0 => s.profit_margin = <<0, 1>>
            /\ s.total_revenue # 0 =>
                   SameAmount(RMul(s.profit_margin, Frac(s.total_revenue)), s.profit)

\* a summary taken when only expirations have occurred: no revenue, a loss,
\* and a profit margin of 0
C20_Witness ==
    /\ Summarised
    /\ broker.expired_loads # <<>>
    /\ broker.completed_loads = <<>>
    /\ last.result.total_revenue = 0
    /\ RLt(last.result.profit, <<0, 1>>)
    /\ last.result.profit_margin = <<0, 1>>

\* what Load.generate_random returns: lead_time and initial_lead_time are the
\* same draw, no carrier, no bid, no round, neither covered nor expired
Fresh(load) ==
    load = NewLoad(load.origin, load.destination, load.market_rate, load.lead_time)

\* update_lead_time(0) has returned
AgedByZero == last'.op = "Load.update_lead_time" /\ last'.result[1] = 0

\* C21 (as claimed): for a freshly generated load (lead_time equal to
\* initial_lead_time, uncovered, unexpired) update_lead_time(0) leaves every
\* field unchanged and does not mark the load expired.
C21_FreshLoadUnchangedByZeroStep ==
    [][(AgedByZero /\ Fresh(loads[1]))
       => /\ loads'[1] = loads[1]
          /\ ~loads'[1].is_expired]_vars

\* C21 (amended): for a freshly generated load with lead_time > 0
\* update_lead_time(0) leaves every field unchanged and does not mark the load
\* expired; a fresh load generated with lead_time 0 is marked expired by it,
\* and nothing else of it changes.
C21_FreshLoadWithTimeLeftUnchanged ==
    [][(AgedByZero /\ Fresh(loads[1]))
       => IF loads[1].lead_time > 0
          THEN loads'[1] = loads[1] /\ ~loads'[1].is_expired
          ELSE loads'[1] = [loads[1] EXCEPT !.is_expired = TRUE]]_vars

\* update_lead_time(0) has returned on a fresh load of lead_time 1.0, which
\* is as generated
C21_Witness ==
    /\ last.op = "Load.update_lead_time"
    /\ last.result = <<0, 10>>
    /\ Fresh(loads[1])
    /\ loads[1].lead_time = 10
    /\ loads[1].initial_lead_time = 10

\* a load of active_loads whose lead_time the step brings from above 0 to 0
ReachesZero(l) ==
    /\ InSeq(l, broker.active_loads)
    /\ loads[l].lead_time > 0
    /\ loads'[l].lead_time <= 0

\* the positions of the entries a step adds to history
Added == (Len(history) + 1)..Len(history')

\* C22: in a broker step a load whose lead_time reaches 0 in the decay phase
\* is in expired_loads before any bid is collected: it has no round of bids,
\* is not covered and keeps its bid fields; every expiration of the step
\* precedes every acceptance of the step; and coverage_rate at the end of the
\* step counts the loads covered and expired in it.
C22_DecayThenBidsThenMetrics ==
    [][~raised'
       => /\ \A l \in LoadIds :
                ReachesZero(l)
                => /\ loads'[l].is_expired
                   /\ InSeq(l, broker'.expired_loads)
                   /\ ~InSeq(l, broker'.active_loads)
                   /\ ~InSeq(l, step_log'.after_decay)
                   /\ \A i \in 1..Len(step_log'.rounds) : step_log'.rounds[i].load # l
                   /\ ~loads'[l].is_covered
                   /\ loads'[l].assigned_carrier_id = 0
                   /\ loads'[l].current_bid = loads[l].current_bid
                   /\ loads'[l].current_bidder_id = loads[l].current_bidder_id
                   /\ loads'[l].negotiation_rounds = loads[l].negotiation_rounds
          /\ \A i, j \in Added :
                (history'[i].kind = "expired" /\ history'[j].kind = "covered") => i < j
          /\ CoverageIsCurrent(broker')]_vars

\* load 2, added after load 1 with a lead time of two steps, has expired in
\* the step in which load 1, aged twice, was covered: coverage_rate is 1/2
C22_Witness ==
    /\ ~raised
    /\ Len(loads) = 2
    /\ Len(history) = 2
    /\ history[1] = [kind |-> "expired", load |-> 2,
                     amount |-> get_penalty_cost(loads[2], 0)]
    /\ history[2].kind = "covered" /\ history[2].load = 1
    /\ loads[2].initial_lead_time = 2 * time_step
    /\ loads[2].lead_time = 0
    /\ loads[1].initial_lead_time - loads[1].lead_time = 2 * time_step
    /\ step_log.after_decay = <<1>>
    /\ Len(step_log.rounds) = 1
    /\ step_log.rounds[1].load = 1
    /\ broker.coverage_rate = <<1, 2>>

\* C23: within one broker step the carriers considered available for bidding
\* are the same for every load the step takes up.
C23_SameCarriersForEveryLoad ==
    \A i, j \in 1..Len(step_log.available) :
        step_log.available[i] = step_log.available[j]

\* C24: under update_lead_time with a time_step >= 0 the lead_time of a load
\* never increases and never becomes negative; the load becomes expired
\* exactly when the call leaves its lead_time at 0 while it is not covered,
\* and by nothing else; so no load with lead_time > 0 is expired, and no
\* uncovered load is left unexpired at lead_time 0 by the call.
C24_LeadTimeDecaysToExpiry ==
    [][/\ Aged => /\ loads'[1].lead_time <= loads[1].lead_time
                  /\ loads'[1].lead_time >= 0
                  /\ loads'[1].is_expired <=>
                         \/ loads[1].is_expired
                         \/ loads'[1].lead_time = 0 /\ ~loads[1].is_covered
                  /\ (~loads'[1].is_covered /\ loads'[1].lead_time = 0)
                         => loads'[1].is_expired
       /\ ~Aged => /\ loads'[1].lead_time = loads[1].lead_time
                   /\ loads'[1].is_expired = loads[1].is_expired
       /\ loads'[1].is_expired => loads'[1].lead_time = 0]_vars

\* a time_step of 0.3 day has taken an uncovered load from 0.1 day to 0, not
\* below, and the load is expired
C24_Witness ==
    /\ last.op = "Load.update_lead_time"
    /\ last.result = <<3, 1>>
    /\ loads[1].lead_time = 0
    /\ ~loads[1].is_covered
    /\ loads[1].is_expired

\* the load under test has had max_negotiation_rounds rounds or more
RoundsExhausted == loads[1].negotiation_rounds >= max_negotiation_rounds

\* process_bids has returned for the load under test
Processed == last'.op = "FreightTech.process_bids" /\ ~raised'

\* C25: once negotiation_rounds is at least max_negotiation_rounds the broker
\* makes no counter-offer for the load; a round then ends in an acceptance of
\* the best bid or in its recording, negotiation_rounds stays at or above the
\* maximum, and a load that gets covered is covered at the price of a bid a
\* carrier made.
C25_NoCounterAfterMaxRounds ==
    [][RoundsExhausted
       => /\ last'.op = "FreightTech.generate_counter_offer" => last'.result = NoneBid
          /\ loads'[1].negotiation_rounds >= max_negotiation_rounds
          /\ Processed
             => /\ step_log'.rounds[1].outcome \in {"accept", "record"}
                /\ step_log'.rounds[1].counter = NoneBid
                /\ loads'[1].is_covered
                   => \E k \in 1..Len(last'.result) :
                         /\ last'.result[k][1] = loads'[1].assigned_carrier_id
                         /\ last'.result[k][2] = loads'[1].current_bid
                         /\ broker'.total_cost = broker.total_cost + last'.result[k][2]]_vars

\* after three rounds a best bid that is not acceptable has been recorded
\* without a counter-offer, where a counter-offer would have been made to it
\* in the first round
C25_Witness ==
    /\ last.op = "FreightTech.process_bids"
    /\ ~raised
    /\ loads[1].negotiation_rounds = max_negotiation_rounds + 1
    /\ step_log.rounds[1].outcome = "record"
    /\ step_log.rounds[1].counter = NoneBid
    /\ generate_counter_offer(broker, [loads[1] EXCEPT !.negotiation_rounds = 0],
                              loads[1].current_bid) # NoneBid

\* the urgency-band price of a load: threshold * 0.9 below urgency 0.3,
\* * 0.95 below 0.7, else * 1.05, and at least market_rate * 0.8
BandPrice(load) ==
    LET u == get_urgency_factor(load)
        band == IF RLt(u, <<3, 10>>) THEN RMul(ThresholdOf(load), <<90, 100>>)
                ELSE IF RLt(u, <<7, 10>>) THEN RMul(ThresholdOf(load), <<95, 100>>)
                ELSE RMul(ThresholdOf(load), <<105, 100>>)
    IN  RMax(band, <<load.market_rate * 80, 100>>)

\* generate_counter_offer has returned for the load under test
Countered == last.op = "FreightTech.generate_counter_offer"

\* C26: every counter-offer generate_counter_offer returns is strictly below
\* the bid it answers and at least market_rate * 0.8, and none is returned
\* when the urgency-band price, floored, is not strictly below the bid.
C26_CounterStrictlyBelowBid ==
    Countered =>
        /\ last.result # NoneBid
           => /\ last.result < last.price
              /\ RLe(<<loads[1].market_rate * 80, 100>>, Frac(last.result))
        /\ RLe(Frac(last.price), BandPrice(loads[1])) => last.result = NoneBid

\* minimum_bid(load) * (1 + aggressiveness * 0.1) of a carrier
Tolerated(c, load) ==
    RMul(<<calculate_cost(c, load) * (100 + c.desired_margin), 100>>,
         <<1000 + c.aggressiveness, 1000>>)

\* C27: a carrier accepts a counter-offer exactly when it is at least the
\* carrier's minimum bid for the load times (1 + aggressiveness * 0.1); a
\* round whose best bid is not accepted outright is settled by the
\* counter-offer exactly when one is made and the lowest bidder accepts it,
\* and the load is then covered by that bidder at the counter price:
\* current_bid, the growth of total_cost and the growth of the carrier's
\* total_revenue are all the counter price.
C27_CounterAcceptedIffTolerated ==
    [][/\ last'.op = "FreightTech.carrier_accepts_counter"
          => (last'.result
              <=> RLe(Tolerated(carriers[last'.carrier], loads[1]), Frac(last'.price)))
       /\ (Processed /\ step_log'.rounds[1].outcome # "accept")
          => LET r == step_log'.rounds[1]
                 c == r.carrier
             IN  /\ r.counter # NoneBid => r.counter = Round2(BandPrice(loads[1]))
                 /\ (r.outcome = "counter")
                        <=> /\ r.counter # NoneBid
                            /\ RLe(Tolerated(carriers[c], loads[1]), Frac(r.counter))
                 /\ r.outcome = "counter"
                    => /\ \E k \in 1..Len(r.bids) :
                              FirstLowest(r.bids, k) /\ r.bids[k][1] = c
                       /\ loads'[1].is_covered
                       /\ loads'[1].assigned_carrier_id = c
                       /\ loads'[1].current_bid = r.counter
                       /\ InSeq(1, broker'.completed_loads)
                       /\ broker'.total_cost = broker.total_cost + r.counter
                       /\ carriers'[c].total_revenue
                              = carriers[c].total_revenue + r.counter]_vars

\* a load of market rate 500 at urgency 0.4: the counter-offer of 451.25 to
\* the lowest bidder, carrier 1, is below its bid and above the 441.875 it
\* tolerates, and the load is covered at 451.25
C27_Witness ==
    /\ last.op = "FreightTech.process_bids"
    /\ ~raised
    /\ step_log.rounds[1].outcome = "counter"
    /\ step_log.rounds[1].carrier = 1
    /\ step_log.rounds[1].counter = 45125
    /\ step_log.rounds[1].counter < LowestPrice(step_log.rounds[1].bids)
    /\ loads[1].is_covered
    /\ loads[1].current_bid = 45125
    /\ broker.total_cost = 45125
    /\ carriers[1].total_revenue = 45125

\* C28: a round of bids that leaves the load uncovered, its best bid neither
\* accepted outright nor settled by an accepted counter-offer, commits
\* nothing: the load stays in active_loads, uncovered and unassigned, the
\* carriers and the broker's lists, totals and consecutive_failures are
\* unchanged, and of the load only current_bid and current_bidder_id, set to
\* the best bid, and negotiation_rounds, one more whatever the number of
\* bids, change.
C28_RecordCommitsNothing ==
    [][(Processed /\ ~loads'[1].is_covered)
       => /\ step_log'.rounds[1].outcome = "record"
          /\ \E k \in 1..Len(last'.result) :
                /\ FirstLowest(last'.result, k)
                /\ loads'[1] = [loads[1] EXCEPT !.current_bid = last'.result[k][2],
                                               !.current_bidder_id = last'.result[k][1],
                                               !.negotiation_rounds = @ + 1]
                /\ carriers'[last'.result[k][1]].is_available
                /\ carriers'[last'.result[k][1]].current_load = 0
          /\ loads'[1].assigned_carrier_id = 0
          /\ InSeq(1, broker'.active_loads)
          /\ carriers' = carriers
          /\ broker' = broker
          /\ history' = history]_vars

\* two carriers have bid in the first round of a load; the lower bidder has
\* refused the counter-offer, and the load has one round and that bid on record
C28_Witness ==
    /\ last.op = "FreightTech.process_bids"
    /\ ~raised
    /\ Len(last.result) = 2
    /\ step_log.rounds[1].outcome = "record"
    /\ step_log.rounds[1].counter # NoneBid
    /\ loads[1].negotiation_rounds = 1
    /\ loads[1].current_bid = LowestPrice(last.result)
    /\ ~loads[1].is_covered
    /\ broker.active_loads = <<1>>
    /\ \A c \in CarrierIds : carriers[c].is_available

\* no carrier of the i-th available list of a step's log is interested in
\* load l as the decay phase of the step has left it
NobodyBids(i, l) ==
    \A k \in 1..Len(step_log'.available[i]) :
        ~is_interested_in_load(carriers[step_log'.available[i][k]],
                               update_lead_time(loads[l], time_step))

\* C29: when in a broker step no available carrier returns a bid for an
\* active load, the bid phase leaves the load's current_bid,
\* current_bidder_id, negotiation_rounds, assigned_carrier_id and coverage
\* flags unchanged, and the load remains in active_loads.
C29_NoBidsLeaveLoadUntouched ==
    [][~raised'
       => /\ Len(step_log'.available) = Len(step_log'.rounds)
          /\ \A i \in 1..Len(step_log'.rounds) :
                NobodyBids(i, step_log'.rounds[i].load)
                => LET l == step_log'.rounds[i].load
                   IN  /\ step_log'.rounds[i].outcome = "none"
                       /\ loads'[l].current_bid = loads[l].current_bid
                       /\ loads'[l].current_bidder_id = loads[l].current_bidder_id
                       /\ loads'[l].negotiation_rounds = loads[l].negotiation_rounds
                       /\ loads'[l].assigned_carrier_id = loads[l].assigned_carrier_id
                       /\ loads'[l].is_covered = loads[l].is_covered
                       /\ loads'[l].is_expired = loads[l].is_expired
                       /\ InSeq(l, broker'.active_loads)]_vars

\* a load with a bid on record from an earlier round has been taken up in a
\* step in which no carrier bid for it, and has the same bid and round count
C29_Witness ==
    /\ ~raised
    /\ \E i \in 1..Len(step_log.rounds) :
          /\ step_log.rounds[i].outcome = "none"
          /\ loads[step_log.rounds[i].load].negotiation_rounds = 1
          /\ loads[step_log.rounds[i].load].current_bid # NoneBid
          /\ loads[step_log.rounds[i].load].current_bidder_id # 0
          /\ ~loads[step_log.rounds[i].load].is_covered
          /\ InSeq(step_log.rounds[i].load, broker.active_loads)

\* the ids of the loads in active_loads
ActiveIds == {broker.active_loads[i] : i \in 1..Len(broker.active_loads)}

\* C30: in every reachable state the keys of pending_negotiations are exactly
\* the ids of the loads in active_loads: add_load makes the entry, and
\* accept_bid and handle_expired_load drop it with the load.
C30_PendingKeysAreActiveLoads == broker.pending_negotiations = ActiveIds

\* of two loads added, one has been accepted or has expired and the other is
\* still active: the one entry left is the active load's
C30_Witness ==
    /\ ~raised
    /\ Len(loads) = 2
    /\ Len(broker.active_loads) = 1
    /\ Len(broker.completed_loads) + Len(broker.expired_loads) = 1
    /\ broker.pending_negotiations = {broker.active_loads[1]}

\* the carriers of a bid list
BiddersOf(bids) == {bids[k][1] : k \in 1..Len(bids)}

\* C31: within one broker step no carrier is assigned more than one load: a
\* carrier that accepted a load earlier in the step is not queried for, and
\* cannot win, a load taken up later in the same step.
C31_OneLoadPerCarrierPerStep ==
    \A i, j \in 1..Len(step_log.rounds) :
        (i < j /\ Accepted(step_log.rounds[i])) =>
            /\ ~InSeq(step_log.rounds[i].carrier, step_log.available[j])
            /\ step_log.rounds[i].carrier \notin BiddersOf(step_log.rounds[j].bids)
            /\ step_log.rounds[j].carrier # step_log.rounds[i].carrier

\* a step that assigned two loads, to two carriers
C31_Witness ==
    /\ ~raised
    /\ \E i, j \in 1..Len(step_log.rounds) :
          /\ i < j
          /\ Accepted(step_log.rounds[i]) /\ Accepted(step_log.rounds[j])
          /\ step_log.rounds[i].load # step_log.rounds[j].load
          /\ carriers[step_log.rounds[i].carrier].current_load = step_log.rounds[i].load
          /\ carriers[step_log.rounds[j].carrier].current_load = step_log.rounds[j].load

\* the loads a carrier has been assigned
AssignedTo(c) == {l \in LoadIds : loads[l].is_covered /\ loads[l].assigned_carrier_id = c}

\* C32: at the end of every model step every carrier is available and holds
\* no load: a load assigned in the broker's step is delivered in the same
\* model step, and a carrier's loads_completed is the number of loads it has
\* been assigned.
C32_CarriersFreeAfterModelStep ==
    \A c \in CarrierIds :
        /\ carriers[c].is_available
        /\ carriers[c].current_load = 0
        /\ carriers[c].loads_completed = Cardinality(AssignedTo(c))

\* a carrier that has been assigned and has delivered two loads, the second
\* in the model step that just ended
C32_Witness ==
    \E c \in CarrierIds :
        /\ carriers[c].loads_completed = 2
        /\ history # <<>>
        /\ \E r \in Rounds : Accepted(r) /\ r.carrier = c
        /\ carriers[c].position = loads[history[Len(history)].load].destination

\* ceil(x / y) for the real values of x and y > 0
RECURSIVE CeilQuotient(_, _)
CeilQuotient(x, y) ==
    IF x = <<0, 0>> THEN 0
    ELSE IF DLe(x, y) THEN 1
    ELSE 1 + CeilQuotient(DSubExact(x, y), y)

\* C33: with time_step > 0 every load added to the broker leaves
\* active_loads within ceil(initial_lead_time / time_step) broker steps of
\* being added, whether or not any carrier bids on it.
C33_GoneWithinLeadTimeSteps ==
    \A l \in LoadIds :
        InSeq(l, broker.active_loads) =>
            last.n < CeilQuotient(loads[l].initial_lead_time, time_step_binary64)

\* the agreed prices of accept_bid so far, in order, with the carrier paid
Payments ==
    LET covered == SelectSeq(history, LAMBDA h : h.kind = "covered")
    IN  [i \in 1..Len(covered) |->
            [price |-> covered[i].amount,
             carrier |-> loads[covered[i].load].assigned_carrier_id]]

PricesOf(payments) == [i \in 1..Len(payments) |-> payments[i].price]

\* broker.total_cost
total_cost_binary64 == FloatSum(PricesOf(Payments))

\* carrier.total_revenue
total_revenue_binary64(c) ==
    FloatSum(PricesOf(SelectSeq(Payments, LAMBDA p : p.carrier = c)))

\* sum(c.total_revenue for c in carriers), over the first k carriers
RECURSIVE SumRevenue(_)
SumRevenue(k) ==
    IF k = 0 THEN <<0, 0>>
    ELSE DAdd(SumRevenue(k - 1), total_revenue_binary64(k))

\* the calls of Carrier.accept_load that did not raise
RECURSIVE AcceptedLoads(_)
AcceptedLoads(k) ==
    IF k = 0 THEN 0
    ELSE AcceptedLoads(k - 1) + carriers[k].loads_completed
             + (IF carriers[k].current_load # 0 THEN 1 ELSE 0)

\* C34: money paid equals money received: after any sequence of model steps
\* broker.total_cost equals the sum of the carriers' total_revenue, and
\* completed_loads holds as many loads as accept_load calls have succeeded.
C34_CostEqualsCarrierRevenue ==
    /\ total_cost_binary64 = SumRevenue(NumCarriers)
    /\ Len(broker.completed_loads) = AcceptedLoads(NumCarriers)

\* the carrier of round r made the lowest bid of the round
LowestBidder(r) ==
    \E k \in 1..Len(r.bids) : r.bids[k] = <<r.carrier, LowestPrice(r.bids)>>

\* C35: the price at which a load is covered never exceeds the lowest bid of
\* the round of acceptance: it is that lowest bid on direct acceptance and is
\* strictly lower on acceptance of a counter-offer, and the carrier assigned
\* is the lowest bidder of the round.
C35_CoverPriceAtMostLowestBid ==
    \A r \in Rounds :
        Accepted(r) =>
            /\ LowestBidder(r)
            /\ r.outcome = "accept" => r.price = LowestPrice(r.bids)
            /\ r.outcome = "counter" => r.price < LowestPrice(r.bids)
            /\ ~raised =>
                  /\ loads[r.load].current_bid = r.price
                  /\ loads[r.load].assigned_carrier_id = r.carrier

\* C36: FreightTech.accept_bid is all-or-nothing: when the carrier's
\* accept_load fails because the carrier is busy, the load is left uncovered
\* and in active_loads with no assigned carrier, and total_revenue,
\* total_cost and consecutive_failures are unchanged.
C36_AcceptBidAllOrNothing ==
    [][(/\ Called("FreightTech.accept_bid")
        /\ InSeq(last'.load, broker.active_loads)
        /\ ~loads[last'.load].is_covered
        /\ loads[last'.load].assigned_carrier_id = 0
        /\ ~carriers[last'.carrier].is_available)
       => (/\ raised'
           /\ ~loads'[last'.load].is_covered
           /\ loads'[last'.load].assigned_carrier_id = 0
           /\ InSeq(last'.load, broker'.active_loads)
           /\ broker'.total_revenue = broker.total_revenue
           /\ broker'.total_cost = broker.total_cost
           /\ broker'.consecutive_failures = broker.consecutive_failures)]_vars

\* C38: the negotiation_rounds of every load on the broker's active list is at
\* most max_negotiation_rounds.
C38_RoundsWithinMaximum ==
    \A l \in 1..Len(loads) :
        InSeq(l, broker.active_loads) => loads[l].negotiation_rounds <= max_negotiation_rounds

\* the counter price of a load before the floor: threshold * 0.9 below urgency
\* 0.3, * 0.95 below 0.7, else * 1.05
UrgencyBandPrice(load) ==
    LET u == get_urgency_factor(load)
    IN  IF RLt(u, <<3, 10>>) THEN RMul(ThresholdOf(load), <<90, 100>>)
        ELSE IF RLt(u, <<7, 10>>) THEN RMul(ThresholdOf(load), <<95, 100>>)
        ELSE RMul(ThresholdOf(load), <<105, 100>>)

\* C39: for a load with market_rate > 0, at every urgency, the urgency-band
\* price is strictly above the floor market_rate * 0.8, and what
\* generate_counter_offer returns is what the band price alone gives: no
\* counter when the bid is not above it, else the band price in cents.
C39_FloorNeverBinds ==
    Countered /\ loads[1].market_rate > 0 =>
        /\ RLt(<<loads[1].market_rate * 80, 100>>, UrgencyBandPrice(loads[1]))
        /\ loads[1].negotiation_rounds < max_negotiation_rounds
           => last.result = IF RLe(Frac(last.price), UrgencyBandPrice(loads[1])) THEN NoneBid
                            ELSE Round2(UrgencyBandPrice(loads[1]))

\* a counter-offer was returned in the lowest band, the one nearest the floor
C39_Witness ==
    /\ Countered
    /\ last.result # NoneBid
    /\ loads[1].market_rate > 0
    /\ RLt(get_urgency_factor(loads[1]), <<3, 10>>)
    /\ last.result = Round2(<<loads[1].market_rate * 855, 1000>>)

\* C37: every load in completed_loads was accepted with a lead_time above 0
\* and an urgency factor strictly below 1, and every load in expired_loads has
\* lead_time 0 and no assigned carrier.  A covered load is taken off the
\* active list, so its lead_time is the one it was accepted with.
C37_CoveredWithTimeLeft ==
    /\ \A k \in 1..Len(broker.completed_loads) :
          /\ loads[broker.completed_loads[k]].lead_time # <<0, 0>>
          /\ DLt(get_urgency_factor_binary64(loads[broker.completed_loads[k]]), Binary64_1)
    /\ \A k \in 1..Len(broker.expired_loads) :
          /\ loads[broker.expired_loads[k]].lead_time = <<0, 0>>
          /\ loads[broker.expired_loads[k]].assigned_carrier_id = 0

====
